---- MODULE Spec2Model ----
\* Verification model of the nofx decision core:
\*   decision/engine.go  GetFullDecision, parseFullDecisionResponse,
\*                       extractCoTTrace, extractDecisions, fixMissingQuotes,
\*                       validateDecisions, validateDecision,
\*                       fetchMarketDataForContext
\*   market/data.go      Get, the indicator functions and the context builders
\*   manager/position_matcher.go  MatchPositions, match
\*   decision/performance.go      Analyze
\*   manager/trader_manager.go    StartTrader, StopTrader, SetDecisionMaker
\*   mcp/client.go                CallWithMessages, isRetryableError
\*   the prompt manager           LoadTemplates, GetTemplate,
\*                                GetAllTemplateNames, ReloadTemplates
EXTENDS Integers, Sequences, FiniteSets, TLC

\* ------------------------------------------------------------------
\* Text.  A Go string is a sequence of tokens; a token is a record
\* [k, ds]: k names the piece of text, ds is the decision list a JSON
\* token spells out (empty for every other token).  Concatenation of
\* strings is \o, so "s contains t verbatim" is a substring test.
\* An error is the text of its message; the nil error is the empty text.
\* ------------------------------------------------------------------
T(s) == [k |-> s, ds |-> << >>]
Nil == << >>

IsInfix(t, s) ==
    \E i \in 0..(Len(s) - Len(t)) : SubSeq(s, i + 1, i + Len(t)) = t

\* ------------------------------------------------------------------
\* float64 arithmetic of validateDecision's risk/reward computation.
\* A positive float64 is <<M, e>>, value M * 2^e, with 2^52 <= M < 2^53.
\* M is held in three 24-bit limbs <<l0, l1, l2>> (little endian), which
\* keeps every intermediate inside 32-bit integers.  Division and
\* multiplication round to nearest, ties to even, as IEEE 754 does.
\* ------------------------------------------------------------------
LimbBase == 4096 * 4096

BigZero == <<0, 0, 0>>
BigOf(n) == <<n % LimbBase, n \div LimbBase, 0>>
BigShl1(x) ==
    LET a == 2 * x[1]
        b == 2 * x[2] + (a \div LimbBase)
        c == 2 * x[3] + (b \div LimbBase)
    IN  <<a % LimbBase, b % LimbBase, c>>
BigShr1(x) ==
    <<(x[1] \div 2) + (x[2] % 2) * (LimbBase \div 2),
      (x[2] \div 2) + (x[3] % 2) * (LimbBase \div 2),
      x[3] \div 2>>
BigGeq(x, y) ==
    IF x[3] # y[3] THEN x[3] > y[3]
    ELSE IF x[2] # y[2] THEN x[2] > y[2]
    ELSE x[1] >= y[1]
BigSub(x, y) ==
    LET b1 == IF x[1] < y[1] THEN 1 ELSE 0
        a  == x[1] - y[1] + b1 * LimbBase
        b2 == IF x[2] - b1 < y[2] THEN 1 ELSE 0
        b  == x[2] - b1 - y[2] + b2 * LimbBase
    IN  <<a, b, x[3] - b2 - y[3]>>
BigInc(x) ==
    LET a == x[1] + 1
        b == x[2] + (a \div LimbBase)
    IN  <<a % LimbBase, b % LimbBase, x[3] + (b \div LimbBase)>>
BigMulSmall(x, k) ==
    LET a == x[1] * k
        b == x[2] * k + (a \div LimbBase)
    IN  <<a % LimbBase, b % LimbBase, x[3] * k + (b \div LimbBase)>>

\* 2^52 <= M < 2^53  <=>  16 <= l2 < 32
RECURSIVE Normalize(_, _)
Normalize(M, e) ==
    IF M[3] >= 16 THEN <<M, e>> ELSE Normalize(BigShl1(M), e - 1)

\* M * 2^e (plus a non-zero remainder below it when sticky) rounded to 53 bits
RECURSIVE RoundTo53(_, _, _, _)
RoundTo53(M, e, rnd, sticky) ==
    IF M[3] >= 32
    THEN RoundTo53(BigShr1(M), e + 1, M[1] % 2, sticky \/ rnd = 1)
    ELSE IF rnd = 1 /\ (sticky \/ M[1] % 2 = 1)
         THEN LET U == BigInc(M)
              IN  IF U[3] >= 32 THEN <<BigShr1(U), e + 1>> ELSE <<U, e>>
         ELSE <<M, e>>

\* float64(n) of an integer 0 < n < 2^31: exact
FromInt(n) == Normalize(BigOf(n), 0)

\* k steps of binary long division by D: st = <<remainder, quotient>>
RECURSIVE LongDiv(_, _, _)
LongDiv(st, D, k) ==
    IF k = 0 THEN st
    ELSE LET R2 == BigShl1(st[1])
             Q2 == BigShl1(st[2])
         IN  IF BigGeq(R2, D)
             THEN LongDiv(<<BigSub(R2, D), BigInc(Q2)>>, D, k - 1)
             ELSE LongDiv(<<R2, Q2>>, D, k - 1)

\* x / y
FDiv(x, y) ==
    LET qr == IF BigGeq(x[1], y[1])
              THEN LongDiv(<<BigSub(x[1], y[1]), BigOf(1)>>, y[1], 55)
              ELSE LongDiv(<<x[1], BigZero>>, y[1], 55)
    IN  RoundTo53(qr[2], x[2] - y[2] - 55, 0, qr[1] # BigZero)
\* x * 100
FMul100(x) == RoundTo53(BigMulSmall(x[1], 100), x[2], 0, FALSE)
\* x < y
FLess(x, y) == IF x[2] # y[2] THEN x[2] < y[2] ELSE ~BigGeq(x[1], y[1])

\* the constant 1.9 of "riskRewardRatio < 1.9": the float64 nearest to 19/10
MinRiskReward == FDiv(FromInt(19), FromInt(10))

\* ------------------------------------------------------------------
\* validateDecision (engine.go 522-633).
\* A Decision is [Symbol, Action, Leverage, PositionSizeUSD, StopLoss,
\* TakeProfit, NewStopLoss, Confidence]; amounts and prices are whole
\* numbers of USD.  mk is what market.Get(d.Symbol) returns at line 584:
\* [err |-> BOOLEAN, CurrentPrice |-> price].
\* ------------------------------------------------------------------
validActions_noWait ==
    {"open_long", "open_short", "close_long", "close_short",
     "partial_close_long", "partial_close_short", "hold",
     "move_sl_to_breakeven"}
validActions ==
    {"open_long", "open_short", "close_long", "close_short",
     "partial_close_long", "partial_close_short", "hold", "wait",
     "move_sl_to_breakeven"}

IsBtcEth(d) == d.Symbol = "BTCUSDT" \/ d.Symbol = "ETHUSDT"

maxLeverage_swapped(d, btcEthLeverage, altcoinLeverage) ==
    IF IsBtcEth(d) THEN altcoinLeverage ELSE btcEthLeverage
\* lines 543-548
maxLeverage(d, btcEthLeverage, altcoinLeverage) ==
    IF IsBtcEth(d) THEN btcEthLeverage ELSE altcoinLeverage

\* lines 544-547, in thousandths of a USD: accountEquity * 1.5 or * 10
maxPositionValue(d, accountEquity) ==
    IF IsBtcEth(d) THEN accountEquity * 10000 ELSE accountEquity * 1500

\* line 560: maxPositionValue * 0.01, in thousandths of a USD
tolerance(d, accountEquity) == maxPositionValue(d, accountEquity) \div 100

sizeError_noStopCheck(d, accountEquity, btcEthLeverage, altcoinLeverage) ==
    IF d.Leverage <= 0
       \/ d.Leverage > maxLeverage(d, btcEthLeverage, altcoinLeverage)
    THEN <<T("leverage must be in 1..maxLeverage")>>
    ELSE IF d.PositionSizeUSD <= 0
    THEN <<T("position size must be > 0")>>
    ELSE IF d.PositionSizeUSD < 20
    THEN <<T("position value must be >= 20 USDT")>>
    ELSE IF d.PositionSizeUSD * 1000
            > maxPositionValue(d, accountEquity) + tolerance(d, accountEquity)
    THEN <<T("position value above the cap")>>
    ELSE Nil
\* lines 550-570: leverage, position size, stops present
sizeError(d, accountEquity, btcEthLeverage, altcoinLeverage) ==
    IF d.Leverage <= 0
       \/ d.Leverage > maxLeverage(d, btcEthLeverage, altcoinLeverage)
    THEN <<T("leverage must be in 1..maxLeverage")>>
    ELSE IF d.PositionSizeUSD <= 0
    THEN <<T("position size must be > 0")>>
    ELSE IF d.PositionSizeUSD < 20
    THEN <<T("position value must be >= 20 USDT")>>
    ELSE IF d.PositionSizeUSD * 1000
            > maxPositionValue(d, accountEquity) + tolerance(d, accountEquity)
    THEN IF IsBtcEth(d)
         THEN <<T("BTC/ETH position value above 10x equity")>>
         ELSE <<T("altcoin position value above 1.5x equity")>>
    ELSE IF d.StopLoss <= 0 \/ d.TakeProfit <= 0
    THEN <<T("stop loss and take profit must be > 0")>>
    ELSE Nil

\* lines 573-581: stop against target
stopOrderError(d) ==
    IF d.Action = "open_long"
    THEN IF d.StopLoss >= d.TakeProfit
         THEN <<T("long: stop loss must be below take profit")>>
         ELSE Nil
    ELSE IF d.StopLoss <= d.TakeProfit
         THEN <<T("short: stop loss must be above take profit")>>
         ELSE Nil

\* lines 591-605: stop and target against the current market price
priceOrderError(d, currentMarketPrice) ==
    IF d.Action = "open_long"
    THEN IF d.StopLoss >= currentMarketPrice
         THEN <<T("long: stop loss must be below market price")>>
         ELSE IF d.TakeProfit <= currentMarketPrice
         THEN <<T("long: take profit must be above market price")>>
         ELSE Nil
    ELSE IF d.StopLoss <= currentMarketPrice
         THEN <<T("short: stop loss must be above market price")>>
         ELSE IF d.TakeProfit >= currentMarketPrice
         THEN <<T("short: take profit must be below market price")>>
         ELSE Nil

\* lines 607-619; called with both distances > 0 (priceOrderError = Nil).
\* The distances are differences of whole numbers, exact in float64.
riskDistance(d, currentMarketPrice) ==
    IF d.Action = "open_long" THEN currentMarketPrice - d.StopLoss
    ELSE d.StopLoss - currentMarketPrice
rewardDistance(d, currentMarketPrice) ==
    IF d.Action = "open_long" THEN d.TakeProfit - currentMarketPrice
    ELSE currentMarketPrice - d.TakeProfit
riskPercent(d, currentMarketPrice) ==
    FMul100(FDiv(FromInt(riskDistance(d, currentMarketPrice)),
                 FromInt(currentMarketPrice)))
rewardPercent(d, currentMarketPrice) ==
    FMul100(FDiv(FromInt(rewardDistance(d, currentMarketPrice)),
                 FromInt(currentMarketPrice)))
riskRewardRatio(d, currentMarketPrice) ==
    FDiv(rewardPercent(d, currentMarketPrice), riskPercent(d, currentMarketPrice))

\* lines 610-625.  With riskPercent <= 0 the ratio stays 0 (guard of line
\* 610/616); with rewardPercent <= 0 it is <= 0: both are below 1.9.
riskRewardError(d, currentMarketPrice) ==
    IF riskDistance(d, currentMarketPrice) <= 0
       \/ rewardDistance(d, currentMarketPrice) <= 0
       \/ FLess(riskRewardRatio(d, currentMarketPrice), MinRiskReward)
    THEN <<T("risk/reward ratio too low, must be >= 1.9:1")>>
    ELSE Nil

openError_ignoreFetchError(d, accountEquity, btcEthLeverage, altcoinLeverage, mk) ==
    IF sizeError(d, accountEquity, btcEthLeverage, altcoinLeverage) # Nil
    THEN sizeError(d, accountEquity, btcEthLeverage, altcoinLeverage)
    ELSE IF stopOrderError(d) # Nil
    THEN stopOrderError(d)
    ELSE IF mk.err
    THEN Nil
    ELSE IF priceOrderError(d, mk.CurrentPrice) # Nil
    THEN priceOrderError(d, mk.CurrentPrice)
    ELSE riskRewardError(d, mk.CurrentPrice)
\* lines 541-625, the open_long / open_short branch
openError(d, accountEquity, btcEthLeverage, altcoinLeverage, mk) ==
    IF sizeError(d, accountEquity, btcEthLeverage, altcoinLeverage) # Nil
    THEN sizeError(d, accountEquity, btcEthLeverage, altcoinLeverage)
    ELSE IF stopOrderError(d) # Nil
    THEN stopOrderError(d)
    ELSE IF mk.err
    THEN <<T("market data fetch failed")>>
    ELSE IF priceOrderError(d, mk.CurrentPrice) # Nil
    THEN priceOrderError(d, mk.CurrentPrice)
    ELSE riskRewardError(d, mk.CurrentPrice)

validateDecision(d, accountEquity, btcEthLeverage, altcoinLeverage, mk) ==
    IF d.Action \notin validActions
    THEN <<T("invalid action")>>
    ELSE IF d.Action = "open_long" \/ d.Action = "open_short"
    THEN openError(d, accountEquity, btcEthLeverage, altcoinLeverage, mk)
    ELSE IF d.Action = "move_sl_to_breakeven"
    THEN IF d.NewStopLoss <= 0
         THEN <<T("NewStopLoss must be > 0")>>
         ELSE Nil
    ELSE Nil

\* ------------------------------------------------------------------
\* Parsing of the model's response (engine.go 394-497).
\* Tokens of a response: prose, white space, the opening fence of a JSON
\* code block (three backquotes and the word json), the closing fence
\* (three backquotes), and JSON texts.  A JSON token names its syntax in k
\* (json_array, json_object, json_null, and the same written with
\* typographic quotes) and the decisions it spells out in ds.
\* ------------------------------------------------------------------
Ws == T(" ")
jsonCodeBlockStart == T("<fence>json")
jsonCodeBlockEnd == T("<fence>")

\* strings.TrimSpace
RECURSIVE TrimLeft(_)
TrimLeft(s) == IF s # << >> /\ Head(s) = Ws THEN TrimLeft(Tail(s)) ELSE s
RECURSIVE TrimRight(_)
TrimRight(s) ==
    IF s # << >> /\ s[Len(s)] = Ws THEN TrimRight(SubSeq(s, 1, Len(s) - 1)) ELSE s
TrimSpace(s) == TrimRight(TrimLeft(s))

\* strings.Index(s, jsonCodeBlockStart): 0-based index of the first match, or -1
IndexStart(s) ==
    IF \E i \in 1..Len(s) : s[i] = jsonCodeBlockStart
    THEN (CHOOSE i \in 1..Len(s) :
            /\ s[i] = jsonCodeBlockStart
            /\ \A j \in 1..(i - 1) : s[j] # jsonCodeBlockStart) - 1
    ELSE -1

\* strings.Index(s, jsonCodeBlockEnd): the opening fence begins with the
\* closing fence's three backquotes and matches too
IsFence(t) == t = jsonCodeBlockEnd \/ t = jsonCodeBlockStart
IndexEnd(s) ==
    IF \E i \in 1..Len(s) : IsFence(s[i])
    THEN (CHOOSE i \in 1..Len(s) :
            /\ IsFence(s[i])
            /\ \A j \in 1..(i - 1) : ~IsFence(s[j])) - 1
    ELSE -1

\* lines 423-435
extractCoTTrace(response) ==
    LET jsonStart == IndexStart(response)
    IN  IF jsonStart > 0
        THEN TrimSpace(SubSeq(response, 1, jsonStart))
        ELSE TrimSpace(response)

\* lines 481-487: typographic quotes become straight quotes
fixMissingQuotes(jsonStr) ==
    [i \in 1..Len(jsonStr) |->
        IF jsonStr[i].k = "json_array_curly"
        THEN [jsonStr[i] EXCEPT !.k = "json_array"]
        ELSE IF jsonStr[i].k = "json_object_curly"
        THEN [jsonStr[i] EXCEPT !.k = "json_object"]
        ELSE jsonStr[i]]

\* json.Unmarshal(jsonContent, &decisions): an array, or null (a nil slice)
unmarshalArrayOk(jsonContent) ==
    Len(jsonContent) = 1 /\ jsonContent[1].k \in {"json_array", "json_null"}
\* json.Unmarshal(jsonContent, &singleDecision): an object, or null
unmarshalObjectOk(jsonContent) ==
    Len(jsonContent) = 1 /\ jsonContent[1].k \in {"json_object", "json_null"}

\* lines 438-478; the result is [decisions, err]
extractDecisions(response) ==
    LET startIdx == IndexStart(response)
        rest == SubSeq(response, startIdx + 2, Len(response))
        endIdx == IndexEnd(rest)
        jsonContent == fixMissingQuotes(TrimSpace(SubSeq(rest, 1, endIdx)))
    IN  IF startIdx = -1
        THEN [decisions |-> << >>,
              err |-> <<T("cannot find JSON code block start marker: "),
                        jsonCodeBlockStart>>]
        ELSE IF endIdx = -1
        THEN [decisions |-> << >>,
              err |-> <<T("cannot find JSON code block end marker: "),
                        jsonCodeBlockEnd>>]
        ELSE IF unmarshalArrayOk(jsonContent)
        THEN [decisions |-> jsonContent[1].ds, err |-> Nil]
        ELSE IF unmarshalObjectOk(jsonContent)
        THEN [decisions |-> <<jsonContent[1].ds[1]>>, err |-> Nil]
        ELSE [decisions |-> << >>,
              err |-> <<T("JSON parse failed (tried array and object): "),
                        T("cannot unmarshal into []Decision"),
                        T("JSON content: ")>> \o jsonContent]

validateDecisions_firstOnly(decisions, accountEquity, btcEthLeverage, altcoinLeverage, mks) ==
    IF decisions # << >>
       /\ validateDecision(decisions[1], accountEquity, btcEthLeverage,
                           altcoinLeverage, mks[1]) # Nil
    THEN <<T("decision #"), T(ToString(1)), T(" failed validation: ")>>
         \o validateDecision(decisions[1], accountEquity, btcEthLeverage,
                             altcoinLeverage, mks[1])
    ELSE Nil
\* lines 491-496, from decision i on
RECURSIVE validateFrom(_, _, _, _, _, _)
validateFrom(i, decisions, accountEquity, btcEthLeverage, altcoinLeverage, mks) ==
    IF i > Len(decisions) THEN Nil
    ELSE LET e == validateDecision(decisions[i], accountEquity, btcEthLeverage,
                                   altcoinLeverage, mks[i])
         IN  IF e # Nil
             THEN <<T("decision #"), T(ToString(i)), T(" failed validation: ")>> \o e
             ELSE validateFrom(i + 1, decisions, accountEquity, btcEthLeverage,
                               altcoinLeverage, mks)
\* lines 490-497; mks[i] is what market.Get returns while decision i is validated
validateDecisions(decisions, accountEquity, btcEthLeverage, altcoinLeverage, mks) ==
    validateFrom(1, decisions, accountEquity, btcEthLeverage, altcoinLeverage, mks)

\* lines 541-583: validating d gets as far as the market.Get call of line 584
reachesMarketGet(d, accountEquity, btcEthLeverage, altcoinLeverage) ==
    /\ d.Action = "open_long" \/ d.Action = "open_short"
    /\ sizeError(d, accountEquity, btcEthLeverage, altcoinLeverage) = Nil
    /\ stopOrderError(d) = Nil
\* lines 490-497 with 584-588: what each market.Get call made while the
\* decisions are validated returned; decision i is validated when every
\* decision before it passed
marketGetCalls(decisions, accountEquity, btcEthLeverage, altcoinLeverage, mks) ==
    [i \in 1..Len(decisions) |->
        IF /\ \A j \in 1..(i - 1) :
                 validateDecision(decisions[j], accountEquity, btcEthLeverage,
                                  altcoinLeverage, mks[j]) = Nil
           /\ reachesMarketGet(decisions[i], accountEquity, btcEthLeverage,
                               altcoinLeverage)
        THEN IF mks[i].err THEN "failed" ELSE "ok"
        ELSE "none"]

\* A FullDecision; the zero string is the empty text, the zero time is 0
FullDecision(userPrompt, systemPrompt, cotTrace, decisions, timestamp) ==
    [UserPrompt |-> userPrompt, SystemPrompt |-> systemPrompt,
     CoTTrace |-> cotTrace, Decisions |-> decisions, Timestamp |-> timestamp]

\* lines 395-420; the result is [decision, err]
parseFullDecisionResponse(aiResponse, accountEquity, btcEthLeverage, altcoinLeverage, mks) ==
    LET cotTrace == extractCoTTrace(aiResponse)
        ex == extractDecisions(aiResponse)
        verr == validateDecisions(ex.decisions, accountEquity, btcEthLeverage,
                                  altcoinLeverage, mks)
    IN  IF ex.err # Nil
        THEN [decision |-> FullDecision(<< >>, << >>, cotTrace, << >>, 0),
              err |-> <<T("extracting decisions failed: ")>> \o ex.err
                      \o <<T("=== AI chain of thought ===")>> \o cotTrace]
        ELSE IF verr # Nil
        THEN [decision |-> FullDecision(<< >>, << >>, cotTrace, ex.decisions, 0),
              err |-> <<T("decision validation failed: ")>> \o verr
                      \o <<T("=== AI chain of thought ===")>> \o cotTrace]
        ELSE [decision |-> FullDecision(<< >>, << >>, cotTrace, ex.decisions, 0),
              err |-> Nil]

\* ------------------------------------------------------------------
\* GetFullDecision (engine.go 97-170)
\* ------------------------------------------------------------------
maxRetries_three == 2 + 1
\* line 129
maxRetries == 2

\* lines 273-296: the custom prompt when it overrides, else the template
buildSystemPrompt(customPrompt, overrideBasePrompt, template) ==
    IF overrideBasePrompt /\ customPrompt # << >>
    THEN [prompt |-> customPrompt, err |-> Nil]
    ELSE IF template = << >>
    THEN [prompt |-> << >>,
          err |-> <<T("prompt template not found")>>]
    ELSE [prompt |-> template, err |-> Nil]

\* lines 136-144
correctionPrompt(err, userPrompt, aiResponse) ==
    <<T("Your previous attempt failed with the following error: ")>> \o err
    \o <<T("Original Request:")>> \o userPrompt
    \o <<T("Your Failed Response:")>> \o aiResponse
    \o <<T("Please review your response, correct the error and provide the full, corrected response (CoT and JSON).")>>

currentPrompt_alwaysOriginal(attempt, err, userPrompt, aiResponse) == userPrompt
\* lines 133-147
currentPrompt(attempt, err, userPrompt, aiResponse) ==
    IF attempt > 0 THEN correctionPrompt(err, userPrompt, aiResponse)
    ELSE userPrompt

accepted_noSystemPrompt(decision, userPrompt, systemPrompt, now) ==
    [decision EXCEPT !.Timestamp = now, !.UserPrompt = userPrompt]
\* lines 161-163
accepted(decision, userPrompt, systemPrompt, now) ==
    [decision EXCEPT !.Timestamp = now, !.UserPrompt = userPrompt,
                     !.SystemPrompt = systemPrompt]

\* ------------------------------------------------------------------
\* MatchPositions (src/manager/position_matcher.go).
\* Quantities, prices and commissions are whole numbers of their smallest
\* unit (quantity in tenths of a coin, price in cents per tenth, commission
\* in cents), on which float64 subtraction, comparison and min are exact.
\* Fees and profits are exact fractions <<numerator, denominator>>.
\* ------------------------------------------------------------------
RECURSIVE GCD(_, _)
GCD(a, b) == IF b = 0 THEN a ELSE GCD(b, a % b)

Abs(x) == IF x < 0 THEN -x ELSE x

\* the fraction n/d in lowest terms, d > 0
Rat(n, d) ==
    LET g == GCD(Abs(n), d)
    IN  IF n = 0 THEN <<0, 1>> ELSE <<n \div g, d \div g>>

RatAdd(x, y) == Rat(x[1] * y[2] + y[1] * x[2], x[2] * y[2])
RatSub(x, y) == Rat(x[1] * y[2] - y[1] * x[2], x[2] * y[2])
RatLeq(x, y) == x[1] * y[2] <= y[1] * x[2]

\* database.TradeRecord, the fields MatchPositions reads
TradeRecord(id, symbol, isBuyer, price, quantity, commission, timestamp) ==
    [TradeID |-> id, Symbol |-> symbol, IsBuyer |-> isBuyer, Price |-> price,
     Quantity |-> quantity, Commission |-> commission, Timestamp |-> timestamp]

\* lines 134-139
min(a, b) == IF a < b THEN a ELSE b

\* sort.Slice on a slice of at most 12 elements is an insertion sort: the
\* elements in ascending order of their keys, equal keys in their order of
\* arrival; keys[i] is the key of s[i]
insertionSort(s, keys) ==
    LET n == Len(s)
        rank(i) == Cardinality({ j \in 1..n :
                       \/ keys[j] < keys[i]
                       \/ (keys[j] = keys[i] /\ j < i) }) + 1
    IN  [r \in 1..n |-> s[CHOOSE i \in 1..n : rank(i) = r]]

\* lines 24-27: the symbols of the ledger, and each symbol's trades in
\* ledger order
symbolsOf(trades) == { trades[i].Symbol : i \in 1..Len(trades) }
groupBySymbol(trades) ==
    [s \in symbolsOf(trades) |-> SelectSeq(trades, LAMBDA t : t.Symbol = s)]

\* lines 33-35
sortByTimestamp(symbolTrades) ==
    insertionSort(symbolTrades,
                  [i \in 1..Len(symbolTrades) |-> symbolTrades[i].Timestamp])

\* lines 66-68: latest close first
sortByCloseTimeDesc(closedPositions) ==
    insertionSort(closedPositions,
                  [i \in 1..Len(closedPositions) |->
                      0 - closedPositions[i].CloseTime])

\* lines 91-95 and 96-99: the share of one side's commission
feeShare(trade, matchQty) ==
    IF trade.Quantity > 0
    THEN Rat(trade.Commission * matchQty, trade.Quantity)
    ELSE <<0, 1>>

\* lines 102-107
netProfitOf(closingTrade, openTrade, matchQty, totalFees, isLongPosition) ==
    IF isLongPosition
    THEN RatSub(<<(closingTrade.Price - openTrade.Price) * matchQty, 1>>, totalFees)
    ELSE RatSub(<<(openTrade.Price - closingTrade.Price) * matchQty, 1>>, totalFees)

\* lines 109-119
ClosedPosition(closingTrade, openTrade, matchQty, totalFees, netProfit) ==
    [Symbol |-> closingTrade.Symbol,
     OpenTime |-> openTrade.Timestamp,
     CloseTime |-> closingTrade.Timestamp,
     Duration |-> closingTrade.Timestamp - openTrade.Timestamp,
     TotalQuantity |-> matchQty,
     AvgOpenPrice |-> openTrade.Price,
     AvgClosePrice |-> closingTrade.Price,
     TotalFees |-> totalFees,
     NetProfit |-> netProfit]

\* line 123
reduceLot_unchanged(openTrade, matchQty) == openTrade
reduceLot(openTrade, matchQty) ==
    [openTrade EXCEPT !.Quantity = @ - matchQty]

\* line 125
lotStillOpen_always(openTrade) == TRUE
lotStillOpen(openTrade) == openTrade.Quantity > 0

\* lines 83-128, one pass of the loop body.  st is
\* [closingQty, closedPositions, remainingOpenTrades, pairs]; pairs records
\* for each ClosedPosition the TradeIDs of the two fills it came from
matchBody(st, openTrade, closingTrade, isLongPosition) ==
    IF st.closingQty = 0
    THEN [st EXCEPT !.remainingOpenTrades = Append(@, openTrade)]
    ELSE LET matchQty == min(st.closingQty, openTrade.Quantity)
             openTradeFee == feeShare(openTrade, matchQty)
             closingTradeFee == feeShare(closingTrade, matchQty)
             totalFees == RatAdd(openTradeFee, closingTradeFee)
             netProfit == netProfitOf(closingTrade, openTrade, matchQty,
                                      totalFees, isLongPosition)
             closed == ClosedPosition(closingTrade, openTrade, matchQty,
                                      totalFees, netProfit)
             reduced == reduceLot(openTrade, matchQty)
         IN  [closingQty |-> st.closingQty - matchQty,
              closedPositions |-> Append(st.closedPositions, closed),
              remainingOpenTrades |->
                  IF lotStillOpen(reduced)
                  THEN Append(st.remainingOpenTrades, reduced)
                  ELSE st.remainingOpenTrades,
              pairs |-> Append(st.pairs, [open |-> openTrade.TradeID,
                                          closing |-> closingTrade.TradeID])]

RECURSIVE matchLoop(_, _, _, _, _)
matchLoop(st, i, openTrades, closingTrade, isLongPosition) ==
    IF i > Len(openTrades)
    THEN st
    ELSE matchLoop(matchBody(st, openTrades[i], closingTrade, isLongPosition),
                   i + 1, openTrades, closingTrade, isLongPosition)

Reverse(s) == [i \in 1..Len(s) |-> s[Len(s) + 1 - i]]

\* lines 77-132.  closingTrade.Quantity is written only at line 130, so the
\* loop reads the closing fill's quantity as it was passed in
match_newestFirst(closingTrade, openTrades, isLongPosition) ==
    LET st == matchLoop([closingQty |-> closingTrade.Quantity,
                         closedPositions |-> << >>,
                         remainingOpenTrades |-> << >>, pairs |-> << >>],
                        1, Reverse(openTrades), closingTrade, isLongPosition)
    IN  [closedPositions |-> st.closedPositions,
         remainingOpenTrades |-> Reverse(st.remainingOpenTrades),
         pairs |-> st.pairs,
         closingTrade |-> [closingTrade EXCEPT !.Quantity = st.closingQty]]
match(closingTrade, openTrades, isLongPosition) ==
    LET st == matchLoop([closingQty |-> closingTrade.Quantity,
                         closedPositions |-> << >>,
                         remainingOpenTrades |-> << >>, pairs |-> << >>],
                        1, openTrades, closingTrade, isLongPosition)
    IN  [closedPositions |-> st.closedPositions,
         remainingOpenTrades |-> st.remainingOpenTrades,
         pairs |-> st.pairs,
         closingTrade |-> [closingTrade EXCEPT !.Quantity = st.closingQty]]

\* lines 49-51 and 58-60
appendRemaining_dropped(open, remainingTrade) == open
appendRemaining(open, remainingTrade) ==
    IF remainingTrade.Quantity > 0 THEN Append(open, remainingTrade) ELSE open

\* lines 40-61, one pass of the loop body over the symbol's trades.
\* b is [openBuys, openSells, closedPositions, pairs]
tradeBody(b, trade) ==
    LET tradeCopy == trade
    IN  IF tradeCopy.IsBuyer
        THEN LET m == match(tradeCopy, b.openSells, FALSE)
             IN  [openBuys |-> appendRemaining(b.openBuys, m.closingTrade),
                  openSells |-> m.remainingOpenTrades,
                  closedPositions |-> b.closedPositions \o m.closedPositions,
                  pairs |-> b.pairs \o m.pairs]
        ELSE LET m == match(tradeCopy, b.openBuys, TRUE)
             IN  [openBuys |-> m.remainingOpenTrades,
                  openSells |-> appendRemaining(b.openSells, m.closingTrade),
                  closedPositions |-> b.closedPositions \o m.closedPositions,
                  pairs |-> b.pairs \o m.pairs]

\* ------------------------------------------------------------------
\* market.Get (src/market/data.go) and fetchMarketDataForContext
\* (src/decision/engine.go).  A pointer is a sequence of at most one
\* element, << >> for nil.  Open interest is counted in contracts and
\* prices in whole USD.
\* ------------------------------------------------------------------
\* the five intervals of lines 106-125, in the order of the go statements
Timeframes == <<"3m", "15m", "1h", "4h", "1d">>
TimeframeSet == { Timeframes[i] : i \in 1..Len(Timeframes) }

\* lines 104 and 175: wg.Add(5), one per interval
WaitGroupAdd_four == Len(Timeframes) - 1
WaitGroupAdd == Len(Timeframes)

\* lines 129-143: the error of the first failed interval in source order
RECURSIVE firstFetchError(_, _)
firstFetchError_only3m(errs, i) ==
    IF errs["3m"] # Nil
    THEN <<T("fetching klines failed: "), T("3m"), T(": ")>> \o errs["3m"]
    ELSE Nil
firstFetchError(errs, i) ==
    IF i > Len(Timeframes) THEN Nil
    ELSE IF errs[Timeframes[i]] # Nil
         THEN <<T("fetching klines failed: "), T(Timeframes[i]), T(": ")>>
              \o errs[Timeframes[i]]
         ELSE firstFetchError(errs, i + 1)

\* line 146
currentPriceOf(klines3m) == klines3m[Len(klines3m)]

\* lines 198-210; contexts maps each interval to the series computed from
\* its candles
Data(symbol, currentPrice, oiData, contexts) ==
    [Symbol |-> symbol, CurrentPrice |-> currentPrice,
     OpenInterest |-> oiData, Contexts |-> contexts]

\* lines 227-229
oiValueInMillionsBelow15(data) ==
    data.OpenInterest[1].Latest * data.CurrentPrice < 15 * 1000000

\* lines 224-234: the liquidity filter drops the symbol
liquidityFiltered_positionsToo(data, isExistingPosition) ==
    /\ data.OpenInterest # << >>
    /\ data.CurrentPrice > 0
    /\ oiValueInMillionsBelow15(data)
liquidityFiltered(data, isExistingPosition) ==
    /\ ~isExistingPosition
    /\ data.OpenInterest # << >>
    /\ data.CurrentPrice > 0
    /\ oiValueInMillionsBelow15(data)

\* lines 183-185 and 190-194: a position's symbol is marked only when it
\* is already in the set, so positions add no symbol to it
symbolSetOf_withPositions(configuredSymbolsToAI, positions) ==
    { configuredSymbolsToAI[i] : i \in 1..Len(configuredSymbolsToAI) }
    \cup { positions[i] : i \in 1..Len(positions) }
symbolSetOf(configuredSymbolsToAI, positions) ==
    LET configured == { configuredSymbolsToAI[i] :
                          i \in 1..Len(configuredSymbolsToAI) }
    IN  configured \cup { positions[i] : i \in { j \in 1..Len(positions) :
                                                   positions[j] \in configured } }

\* lines 199-202
positionSymbolsOf(positions) == { positions[i] : i \in 1..Len(positions) }

\* lines 213-238: the symbols that reach line 236.  get[symbol] is what
\* market.Get returns for the symbol, [data, err]
fetchedSymbols(symbolSet, positionSymbols, get) ==
    { symbol \in symbolSet :
        /\ get[symbol].err = Nil
        /\ ~liquidityFiltered(get[symbol].data[1], symbol \in positionSymbols) }

\* lines 240-242
noDataError_never(fetchedCount, symbolSet) == Nil
noDataError(fetchedCount, symbolSet) ==
    IF fetchedCount = 0 /\ Cardinality(symbolSet) > 0
    THEN <<T("no market data for any configured symbol")>>
    ELSE Nil

\* lines 173-262: the MarketDataMap left in ctx, the symbols market.Get was
\* called for (line 215) and the returned error
fetchMarketDataForContext(configuredSymbolsToAI, positions, get) ==
    LET symbolSet == symbolSetOf(configuredSymbolsToAI, positions)
        positionSymbols == positionSymbolsOf(positions)
        fetched == fetchedSymbols(symbolSet, positionSymbols, get)
    IN  [MarketDataMap |-> [symbol \in fetched |-> get[symbol].data[1]],
         Requested |-> symbolSet,
         err |-> noDataError(Cardinality(fetched), symbolSet)]

\* ------------------------------------------------------------------
\* State
\* ------------------------------------------------------------------
VARIABLES
    vpc,      \* validateDecision call: "call" before, "done" after
    vIn,      \* its arguments: [d, accountEquity, btcEthLeverage, altcoinLeverage, mk]
    vErr,     \* its returned error
    pc,           \* GetFullDecision: "fetch", "build", "loop", "call", "parse",
                  \* "accepted", "failed"
    ctx,          \* [TotalEquity, BTCETHLeverage, AltcoinLeverage,
                  \* ConfiguredSymbolsToAI, Positions, MarketDataMap]
    systemPrompt, \* line 119
    userPrompt,   \* line 123
    attempt,      \* loop counter of line 131
    aiResponse,   \* line 125
    decision,     \* line 126
    err,          \* the err of lines 119, 149, 155
    ret,          \* the returned pair [decision, err]; decision << >> is nil
    sent,         \* the requests handed to the reasoning client, in order
    hist,         \* what came back for each request: [resp, err, transport]
    now,          \* the clock time.Now reads
    marketGet,    \* what market.Get returns for each symbol in this cycle
    fpc,      \* fetchMarketDataForContext call: "call" before, "done" after
    fIn,      \* its inputs: [ConfiguredSymbolsToAI, Positions, get]
    fOut,     \* its outputs: [MarketDataMap, Requested, err]
    mpc,             \* MatchPositions: "call", "symbols", "trades", "returned"
    ledger,          \* the fill set, as first handed to MatchPositions
    trades,          \* the caller's slice, the argument of the current call
    calls,           \* how many calls have been made
    tradesBySymbol,  \* line 24
    pending,         \* the symbols the range of line 31 has not visited yet
    symbolTrades,    \* the sorted trades of the symbol being processed
    tradeIdx,        \* position of the range of line 40 in symbolTrades
    openBuys,        \* line 37
    openSells,       \* line 38
    closedPositions, \* line 29
    pairs,           \* per ClosedPosition, the TradeIDs of its two fills
    mRet,            \* the slice the current call returned
    firstCall,       \* [trades, ret] of the first call
    gpc,       \* market.Get, the calling goroutine's position [at, i]:
               \* "add", "go" i, "wait", "check", "oi", "calcgo" i,
               \* "calcwait", "return", "returned", "placed"
    gIn,       \* [symbol, isExistingPosition]
    wg,        \* the WaitGroup counter
    fetchPc,   \* per interval, the fetch goroutine: "none", "fetching",
               \* "assigned", "done"
    klines,    \* klines3m .. klines1d, by interval
    errs,      \* err3m .. err1d, by interval
    oiData,    \* line 165
    calcPc,    \* per interval, the computing goroutine
    contexts,  \* intradayData .. dailyData, by interval; << >> is unset
    gRet,      \* what Get returned: [data, err]
    gMap       \* the caller's MarketDataMap after the loop body of 214-238

valVars == <<vpc, vIn, vErr>>
gfdVars == <<pc, ctx, systemPrompt, userPrompt, attempt, aiResponse, decision,
             err, ret, sent, hist, now, marketGet>>
fetchVars == <<fpc, fIn, fOut>>
matchVars == <<mpc, ledger, trades, calls, tradesBySymbol, pending,
               symbolTrades, tradeIdx, openBuys, openSells, closedPositions,
               pairs, mRet, firstCall>>
getVars == <<gpc, gIn, wg, fetchPc, klines, errs, oiData, calcPc, contexts,
             gRet, gMap>>

VARIABLES
    ipc,      \* an indicator or snapshot-builder call: "call" before, "done" after
    iIn,      \* its arguments: [klines, period]
    iOut,     \* [fn, panic, value]: the function called, whether it
              \* panicked, what it returned
    apc,      \* Analyze call: "call" before, "done" after
    aIn,      \* [dbErr, closedPositions, records]
    aOut,     \* [analysis, err]; analysis << >> is nil
    tmMu,     \* tm.mu: [readers, writer, pending]
    tmPc,     \* per caller, its position in the TraderManager method
    tmCall,   \* per caller, the method and the trader ID: [op, id]
    tmRet,    \* per caller, the returned error
    isDecisionMaker, \* per registered trader, the argument of the last
                     \* SetDecisionMaker call made on it
    runPc,    \* per caller, the goroutine of line 216: "none", "spawned",
              \* "running" (inside at.Run), "returned"
    errChan,  \* per caller, the buffered channel of line 214
    flagsAt,  \* per caller, the flags when SetDecisionMaker got the lock
              \* and when it released it: [before, after]
    cpc,      \* CallWithMessages: "call", "loop", "sleep", "returned"
    cfg,      \* the Client: [APIKey, GeminiAPIKey, Provider]
    cAttempt, \* the loop counter of line 201
    lastErr,  \* line 199
    providerCalls, \* the calls made to the provider: [provider, err]
    slept,    \* the waits of line 233, in seconds
    cRet,     \* the returned pair [result, err]
    pmMu,     \* pm.mu: [readers, writer, pending]; readers counts the
              \* read locks each goroutine holds
    pmPc,     \* per goroutine, its position in the PromptManager method
    pmCall,   \* per goroutine, the method it calls
    templates, \* pm.templates, the IDs loaded
    pmRet     \* per goroutine, what its call returned

indVars == <<ipc, iIn, iOut>>
perfVars == <<apc, aIn, aOut>>
tmVars == <<tmMu, tmPc, tmCall, tmRet, isDecisionMaker, runPc, errChan,
            flagsAt>>
mcpVars == <<cpc, cfg, cAttempt, lastErr, providerCalls, slept, cRet>>
pmVars == <<pmMu, pmPc, pmCall, templates, pmRet>>
coreVars == <<valVars, gfdVars, fetchVars, matchVars, getVars>>
otherVars == <<indVars, perfVars, tmVars, mcpVars, pmVars>>
vars == <<coreVars, otherVars>>

NoDecision == FullDecision(<< >>, << >>, << >>, << >>, 0)

\* GetFullDecision not called
GfdIdle ==
    /\ pc = "idle"
    /\ ctx = [TotalEquity |-> 0, BTCETHLeverage |-> 0, AltcoinLeverage |-> 0,
              ConfiguredSymbolsToAI |-> << >>, Positions |-> << >>,
              MarketDataMap |-> << >>]
    /\ systemPrompt = << >> /\ userPrompt = << >>
    /\ attempt = 0 /\ aiResponse = << >> /\ decision = NoDecision
    /\ err = Nil /\ ret = [decision |-> << >>, err |-> Nil]
    /\ sent = << >> /\ hist = << >> /\ now = 0
    /\ marketGet = << >>

\* fetchMarketDataForContext not called on its own
FetchIdle ==
    /\ fpc = "idle"
    /\ fIn = [ConfiguredSymbolsToAI |-> << >>, Positions |-> << >>, get |-> << >>]
    /\ fOut = [MarketDataMap |-> << >>, Requested |-> {}, err |-> Nil]

\* MatchPositions not called
MatchIdle ==
    /\ mpc = "idle"
    /\ ledger = << >> /\ trades = << >> /\ calls = 0
    /\ tradesBySymbol = << >> /\ pending = {}
    /\ symbolTrades = << >> /\ tradeIdx = 0
    /\ openBuys = << >> /\ openSells = << >>
    /\ closedPositions = << >> /\ pairs = << >>
    /\ mRet = << >> /\ firstCall = [trades |-> << >>, ret |-> << >>]

\* market.Get not called
GetIdle ==
    /\ gpc = [at |-> "idle", i |-> 0]
    /\ gIn = [symbol |-> "", isExistingPosition |-> FALSE]
    /\ wg = 0
    /\ fetchPc = [tf \in TimeframeSet |-> "none"]
    /\ klines = [tf \in TimeframeSet |-> << >>]
    /\ errs = [tf \in TimeframeSet |-> Nil]
    /\ oiData = << >>
    /\ calcPc = [tf \in TimeframeSet |-> "none"]
    /\ contexts = [tf \in TimeframeSet |-> << >>]
    /\ gRet = [data |-> << >>, err |-> Nil]
    /\ gMap = << >>

\* validateDecision not called
ValIdle ==
    /\ vpc = "idle"
    /\ vIn = [d |-> [Symbol |-> "", Action |-> "", Leverage |-> 0,
                     PositionSizeUSD |-> 0, StopLoss |-> 0, TakeProfit |-> 0,
                     NewStopLoss |-> 0, Confidence |-> 0],
              accountEquity |-> 0, btcEthLeverage |-> 0, altcoinLeverage |-> 0,
              mk |-> [err |-> TRUE, CurrentPrice |-> 0]]
    /\ vErr = Nil

\* no indicator called
IndIdle ==
    /\ ipc = "idle"
    /\ iIn = [klines |-> << >>, period |-> 0]
    /\ iOut = [fn |-> "", panic |-> FALSE, value |-> <<0, 1>>]

\* Analyze not called
PerfIdle ==
    /\ apc = "idle"
    /\ aIn = [dbErr |-> Nil, closedPositions |-> << >>, records |-> << >>]
    /\ aOut = [analysis |-> << >>, err |-> Nil]

\* no TraderManager method called
TmIdle ==
    /\ tmMu = [readers |-> {}, writer |-> {}, pending |-> {}]
    /\ tmPc = << >> /\ tmCall = << >> /\ tmRet = << >>
    /\ isDecisionMaker = << >>
    /\ runPc = << >> /\ errChan = << >>
    /\ flagsAt = << >>

\* CallWithMessages not called
McpIdle ==
    /\ cpc = "idle"
    /\ cfg = [APIKey |-> << >>, GeminiAPIKey |-> << >>, Provider |-> ""]
    /\ cAttempt = 0 /\ lastErr = Nil
    /\ providerCalls = << >> /\ slept = << >>
    /\ cRet = [result |-> << >>, err |-> Nil]

\* no PromptManager method called
PmIdle ==
    /\ pmMu = [readers |-> << >>, writer |-> {}, pending |-> {}]
    /\ pmPc = << >> /\ pmCall = << >>
    /\ templates = {} /\ pmRet = << >>

CoreIdle == ValIdle /\ GfdIdle /\ FetchIdle /\ MatchIdle /\ GetIdle
OtherIdle == IndIdle /\ PerfIdle /\ TmIdle /\ McpIdle /\ PmIdle

\* ------------------------------------------------------------------
\* SpecValidate: validateDecision applied to bounded inputs
\* ------------------------------------------------------------------
MaxLeverage == 2

Dec(sym, act, lev, size, sl, tp, nsl, conf) ==
    [Symbol |-> sym, Action |-> act, Leverage |-> lev, PositionSizeUSD |-> size,
     StopLoss |-> sl, TakeProfit |-> tp, NewStopLoss |-> nsl, Confidence |-> conf]
Mk(e, p) == [err |-> e, CurrentPrice |-> p]

SymbolInputs == {"BTCUSDT", "ETHUSDT", "SOLUSDT"}
OpenActions == {"open_long", "open_short"}
OtherActions ==
    {"close_long", "close_short", "partial_close_long", "partial_close_short",
     "hold", "wait", "move_sl_to_breakeven", "buy", ""}
\* around the 20 USDT floor and the caps of equity 100: 151.5 and 1010
SizeInputs == {0, 19, 20, 151, 152, 1010, 1011}
EquityInputs == {0, 100}
\* around the market prices 20 and 24 and the ratio 1.9 on either side
PriceInputs == {0, 1, 5, 10, 14, 20, 24, 30, 34, 39, 43}
MarketInputs == {Mk(TRUE, 0), Mk(FALSE, 20), Mk(FALSE, 24)}
ConfidenceInputs == {0, 90}

\* open decisions: every leverage and size against every configuration
LimitInputs ==
    { [d |-> Dec(sym, act, lev, size, sl, tp, 0, 90),
       accountEquity |-> eq, btcEthLeverage |-> bl, altcoinLeverage |-> al,
       mk |-> mk] :
      sym \in SymbolInputs, act \in OpenActions, lev \in 0..(MaxLeverage + 1),
      size \in SizeInputs, sl \in {0, 10, 30}, tp \in {0, 1, 39},
      eq \in EquityInputs, bl \in 1..MaxLeverage, al \in 1..MaxLeverage,
      mk \in {Mk(FALSE, 20)} }

\* open decisions within the limits: every stop and target against every price
StopInputs ==
    { [d |-> Dec(sym, act, 1, 100, sl, tp, 0, conf),
       accountEquity |-> 100, btcEthLeverage |-> MaxLeverage,
       altcoinLeverage |-> 1, mk |-> mk] :
      sym \in {"BTCUSDT", "SOLUSDT"}, act \in OpenActions,
      sl \in PriceInputs, tp \in PriceInputs, conf \in ConfidenceInputs,
      mk \in MarketInputs }

\* every other action, with every other field free
OtherInputs ==
    { [d |-> Dec(sym, act, lev, size, st[1], st[2], nsl, conf),
       accountEquity |-> eq, btcEthLeverage |-> MaxLeverage,
       altcoinLeverage |-> 1, mk |-> mk] :
      sym \in {"BTCUSDT", "SOLUSDT"}, act \in OtherActions,
      lev \in {0, MaxLeverage + 1}, size \in {0, 1011},
      st \in {<<0, 0>>, <<10, 39>>}, nsl \in {-1, 0, 20},
      conf \in ConfidenceInputs, eq \in EquityInputs,
      mk \in {Mk(TRUE, 0), Mk(FALSE, 20)} }

ValidateInputs == LimitInputs \cup StopInputs \cup OtherInputs

InitValidate ==
    /\ GfdIdle /\ FetchIdle /\ MatchIdle /\ GetIdle /\ OtherIdle
    /\ vpc = "call"
    /\ vIn \in ValidateInputs
    /\ vErr = Nil

ValidateCall ==
    /\ vpc = "call"
    /\ vErr' = validateDecision(vIn.d, vIn.accountEquity, vIn.btcEthLeverage,
                                vIn.altcoinLeverage, vIn.mk)
    /\ vpc' = "done"
    /\ UNCHANGED <<vIn, gfdVars, fetchVars, matchVars, getVars, otherVars>>

NextValidate == ValidateCall

SpecValidate == InitValidate /\ [][NextValidate]_vars

\* ------------------------------------------------------------------
\* SpecGFD: one call of GetFullDecision against every bounded behaviour
\* of the reasoning client and of the market feed
\* ------------------------------------------------------------------
MaxDecisions == 2

Cot == T("analysis")
Hold == Dec("SOLUSDT", "hold", 0, 0, 0, 0, 0, 0)
GoodLong == Dec("BTCUSDT", "open_long", 1, 100, 10, 40, 0, 90)
BadLong == Dec("BTCUSDT", "open_long", 0, 100, 10, 40, 0, 90)
SampleDecisions == {Hold, GoodLong, BadLong}

RECURSIVE SeqsUpTo(_, _)
SeqsUpTo(S, n) ==
    IF n = 0 THEN {<< >>}
    ELSE SeqsUpTo(S, n - 1)
         \cup { Append(q, x) : q \in { r \in SeqsUpTo(S, n - 1) : Len(r) = n - 1 },
                               x \in S }

JsonInputs ==
    { [k |-> "json_array", ds |-> q] : q \in SeqsUpTo({Hold, BadLong}, MaxDecisions) }
    \cup { [k |-> "json_array", ds |-> <<GoodLong>>],
           [k |-> "json_array", ds |-> <<Hold, GoodLong>>] }
    \cup { [k |-> "json_object", ds |-> <<x>>] : x \in SampleDecisions }
    \cup { [k |-> "json_array_curly", ds |-> <<GoodLong>>],
           [k |-> "json_object_curly", ds |-> <<Hold>>],
           [k |-> "json_null", ds |-> << >>] }
\* what stands between the fences
ContentInputs ==
    { <<j>> : j \in JsonInputs }
    \cup { << >>, <<Cot>>, <<Ws, [k |-> "json_array", ds |-> <<Hold>>], Ws>>,
           <<[k |-> "json_object", ds |-> <<Hold>>], Cot>> }
PreInputs == { << >>, <<Ws, Cot, Ws>> }
Responses ==
    \* no JSON code block
    { << >>, <<Cot>>, <<Ws, Cot>>, <<Cot, jsonCodeBlockEnd, Cot, jsonCodeBlockEnd>> }
    \* a JSON code block that is not closed
    \cup { pre \o <<jsonCodeBlockStart, [k |-> "json_array", ds |-> <<Hold>>]>> :
           pre \in PreInputs }
    \* a closed JSON code block
    \cup { pre \o <<jsonCodeBlockStart>> \o c \o <<jsonCodeBlockEnd>> :
           pre \in PreInputs, c \in ContentInputs }
    \* text after the block; a second block
    \cup { <<Cot, jsonCodeBlockStart, [k |-> "json_array", ds |-> <<GoodLong>>],
             jsonCodeBlockEnd, Cot>>,
           <<Cot, jsonCodeBlockStart, [k |-> "json_array", ds |-> <<BadLong>>],
             jsonCodeBlockStart, [k |-> "json_array", ds |-> <<Hold>>],
             jsonCodeBlockEnd>> }
ClientErrors == { <<T("API returned an error status")>> }
MarketOutcomes == { Mk(TRUE, 0), Mk(FALSE, 20) }
\* what market.Get can return for a symbol: an error, or a snapshot with a
\* price and an open interest
GetFailed == [data |-> << >>, err |-> <<T("fetching klines failed")>>]
SampleContexts == [tf \in TimeframeSet |-> <<[Interval |-> tf, Last |-> 20]>>]
GetOk(symbol, currentPrice, oi) ==
    [data |-> <<Data(symbol, currentPrice, oi, SampleContexts)>>,
     err |-> Nil]
OI(latest) == <<[Latest |-> latest]>>

\* the feed of one cycle: BTCUSDT fails, is illiquid or is liquid; every
\* other symbol fails
GfdGetInputs(symbolSet) ==
    { [symbol \in symbolSet |->
          IF symbol = "BTCUSDT" THEN b ELSE GetFailed] :
      b \in {GetFailed, GetOk("BTCUSDT", 20, OI(700000)),
             GetOk("BTCUSDT", 20, OI(800000))} }
CtxInputs ==
    { [TotalEquity |-> 100, BTCETHLeverage |-> MaxLeverage, AltcoinLeverage |-> 1,
       ConfiguredSymbolsToAI |-> c, Positions |-> << >>,
       MarketDataMap |-> << >>] :
      c \in {<< >>, <<"BTCUSDT", "SOLUSDT">>} }
CustomPromptInputs == { << >>, <<T("custom rules")>> }
TemplateInputs == { << >>, <<T("template rules")>> }
UserPromptInputs == { <<T("account, positions and market data")>> }

InitGFD ==
    /\ ValIdle /\ FetchIdle /\ MatchIdle /\ GetIdle /\ OtherIdle
    /\ pc = "fetch"
    /\ ctx \in CtxInputs
    /\ systemPrompt = << >> /\ userPrompt = << >>
    /\ attempt = 0 /\ aiResponse = << >> /\ decision = NoDecision
    /\ err = Nil /\ ret = [decision |-> << >>, err |-> Nil]
    /\ sent = << >> /\ hist = << >> /\ now = 1
    /\ marketGet = << >>

\* lines 97-101: fetchMarketDataForContext writes ctx.MarketDataMap; what
\* market.Get returns for each symbol is the market feed's choice
FetchMarketData ==
    /\ pc = "fetch"
    /\ \E get \in GfdGetInputs(symbolSetOf(ctx.ConfiguredSymbolsToAI, ctx.Positions)) :
          LET f == fetchMarketDataForContext(ctx.ConfiguredSymbolsToAI,
                                             ctx.Positions, get)
          IN  /\ marketGet' = get
              /\ ctx' = [ctx EXCEPT !.MarketDataMap = f.MarketDataMap]
              /\ IF f.err # Nil
                 THEN /\ ret' = [decision |-> << >>,
                                 err |-> <<T("fetching market data failed: ")>>
                                         \o f.err]
                      /\ pc' = "failed"
                 ELSE /\ pc' = "build"
                      /\ UNCHANGED ret
    /\ now' = now + 1
    /\ UNCHANGED <<systemPrompt, userPrompt, attempt, aiResponse, decision,
                   err, sent, hist, valVars, fetchVars, matchVars, getVars, otherVars>>

\* lines 119-123
BuildPrompts ==
    /\ pc = "build"
    /\ \E customPrompt \in CustomPromptInputs, overrideBasePrompt \in BOOLEAN,
          template \in TemplateInputs, up \in UserPromptInputs :
          LET b == buildSystemPrompt(customPrompt, overrideBasePrompt, template)
          IN  /\ err' = b.err
              /\ systemPrompt' = b.prompt
              /\ IF b.err # Nil
                 THEN /\ ret' = [decision |-> << >>,
                                 err |-> <<T("building system prompt failed: ")>>
                                         \o b.err]
                      /\ pc' = "failed"
                      /\ UNCHANGED userPrompt
                 ELSE /\ userPrompt' = up
                      /\ pc' = "loop"
                      /\ UNCHANGED ret
    /\ now' = now + 1
    /\ UNCHANGED <<ctx, marketGet, attempt, aiResponse, decision, sent, hist, valVars,
                   fetchVars, matchVars, getVars, otherVars>>

\* lines 131-149: the loop test, the prompt of this attempt, the call
SendRequest ==
    /\ pc = "loop"
    /\ attempt < maxRetries
    /\ sent' = Append(sent, [system |-> systemPrompt,
                             user |-> currentPrompt(attempt, err, userPrompt, aiResponse)])
    /\ pc' = "call"
    /\ now' = now + 1
    /\ UNCHANGED <<ctx, marketGet, systemPrompt, userPrompt, attempt, aiResponse, decision,
                   err, ret, hist, valVars,
                   fetchVars, matchVars, getVars, otherVars>>

\* line 149, the client returns a response
ReceiveResponse ==
    /\ pc = "call"
    /\ \E r \in Responses : aiResponse' = r
    /\ err' = Nil
    /\ pc' = "parse"
    /\ now' = now + 1
    /\ UNCHANGED <<ctx, marketGet, systemPrompt, userPrompt, attempt, decision, ret, sent,
                   hist, valVars,
                   fetchVars, matchVars, getVars, otherVars>>

ReceiveError_continue ==
    /\ pc = "call"
    /\ \E e \in ClientErrors :
          /\ err' = e
          /\ hist' = Append(hist, [resp |-> << >>, err |-> e, transport |-> TRUE,
                                   gets |-> << >>])
    /\ aiResponse' = << >>
    /\ attempt' = attempt + 1
    /\ pc' = "loop"
    /\ now' = now + 1
    /\ UNCHANGED <<ctx, marketGet, systemPrompt, userPrompt, decision, ret, sent, valVars,
                   fetchVars, matchVars, getVars, otherVars>>
\* lines 149-152, the client returns an error
ReceiveError ==
    /\ pc = "call"
    /\ \E e \in ClientErrors :
          /\ err' = e
          /\ hist' = Append(hist, [resp |-> << >>, err |-> e, transport |-> TRUE,
                                   gets |-> << >>])
          /\ ret' = [decision |-> << >>,
                     err |-> <<T("calling AI API failed (attempt "),
                               T(ToString(attempt + 1)), T("): ")>> \o e]
    /\ aiResponse' = << >>
    /\ pc' = "failed"
    /\ now' = now + 1
    /\ UNCHANGED <<ctx, marketGet, systemPrompt, userPrompt, attempt, decision, sent, valVars,
                   fetchVars, matchVars, getVars, otherVars>>

\* lines 155-166
ParseAndValidate ==
    /\ pc = "parse"
    /\ \E mks \in [1..MaxDecisions -> MarketOutcomes] :
          LET p == parseFullDecisionResponse(aiResponse, ctx.TotalEquity,
                       ctx.BTCETHLeverage, ctx.AltcoinLeverage, mks)
          IN  /\ err' = p.err
              /\ hist' = Append(hist, [resp |-> aiResponse, err |-> p.err,
                                       transport |-> FALSE,
                                       gets |-> marketGetCalls(
                                           extractDecisions(aiResponse).decisions,
                                           ctx.TotalEquity, ctx.BTCETHLeverage,
                                           ctx.AltcoinLeverage, mks)])
              /\ IF p.err = Nil
                 THEN /\ decision' = accepted(p.decision, userPrompt, systemPrompt, now)
                      /\ ret' = [decision |-> <<decision'>>, err |-> Nil]
                      /\ pc' = "accepted"
                      /\ UNCHANGED attempt
                 ELSE /\ decision' = p.decision
                      /\ attempt' = attempt + 1
                      /\ pc' = "loop"
                      /\ UNCHANGED ret
    /\ now' = now + 1
    /\ UNCHANGED <<ctx, marketGet, systemPrompt, userPrompt, aiResponse, sent, valVars,
                   fetchVars, matchVars, getVars, otherVars>>

\* line 169
GiveUp ==
    /\ pc = "loop"
    /\ attempt >= maxRetries
    /\ ret' = [decision |-> << >>,
               err |-> <<T("AI decision still failing after "),
                         T(ToString(maxRetries)), T(" attempts: ")>> \o err]
    /\ pc' = "failed"
    /\ now' = now + 1
    /\ UNCHANGED <<ctx, marketGet, systemPrompt, userPrompt, attempt, aiResponse, decision,
                   err, sent, hist, valVars,
                   fetchVars, matchVars, getVars, otherVars>>

NextGFD ==
    \/ FetchMarketData
    \/ BuildPrompts
    \/ SendRequest
    \/ ReceiveResponse
    \/ ReceiveError
    \/ ParseAndValidate
    \/ GiveUp

SpecGFD == InitGFD /\ [][NextGFD]_vars

\* ------------------------------------------------------------------
\* SpecFetch: fetchMarketDataForContext on every bounded context and feed
\* ------------------------------------------------------------------
FetchSymbols == {"BTCUSDT", "SOLUSDT"}
GetOutcomes(symbol) ==
    {GetFailed} \cup
    { GetOk(symbol, p, oi) :
        p \in {0, 20}, oi \in {<< >>, OI(0), OI(749999), OI(750000)} }
FetchInputs ==
    { [ConfiguredSymbolsToAI |-> c, Positions |-> ps,
       get |-> [symbol \in FetchSymbols |->
                   IF symbol = "BTCUSDT" THEN b ELSE o]] :
      c \in {<< >>, <<"BTCUSDT">>, <<"SOLUSDT">>, <<"BTCUSDT", "SOLUSDT">>},
      ps \in {<< >>, <<"SOLUSDT">>, <<"BTCUSDT", "SOLUSDT">>},
      b \in GetOutcomes("BTCUSDT"), o \in GetOutcomes("SOLUSDT") }

InitFetch ==
    /\ ValIdle /\ GfdIdle /\ MatchIdle /\ GetIdle /\ OtherIdle
    /\ fpc = "call"
    /\ fIn \in FetchInputs
    /\ fOut = [MarketDataMap |-> << >>, Requested |-> {}, err |-> Nil]

FetchCall ==
    /\ fpc = "call"
    /\ fOut' = fetchMarketDataForContext(fIn.ConfiguredSymbolsToAI,
                                         fIn.Positions, fIn.get)
    /\ fpc' = "done"
    /\ UNCHANGED <<fIn, valVars, gfdVars, matchVars, getVars, otherVars>>

NextFetch == FetchCall

SpecFetch == InitFetch /\ [][NextFetch]_vars

\* ------------------------------------------------------------------
\* SpecMatch: MatchPositions called on a ledger, then called once more on
\* the same fills, in the same order or with two of them exchanged
\* ------------------------------------------------------------------
MaxFills == 3

\* [symbol, isBuyer, price, quantity, commission, timestamp]
FillInputs ==
    { <<"BTCUSDT", TRUE, 1000, 10, 10, 1>>,
      <<"BTCUSDT", FALSE, 1100, 4, 5, 2>>,
      <<"BTCUSDT", FALSE, 900, 6, 5, 3>>,
      <<"BTCUSDT", TRUE, 1200, 10, 10, 1>>,
      <<"BTCUSDT", TRUE, 900, 4, 5, 3>>,
      <<"BTCUSDT", FALSE, 1000, 16, 10, 3>>,
      <<"BTCUSDT", FALSE, 1000, 0, 0, 2>>,
      <<"ETHUSDT", TRUE, 1000, 4, 0, 1>> }

\* the ledgers of at most MaxFills fills; the TradeID of a fill is its
\* place in the ledger
Ledgers ==
    UNION { { [i \in 1..n |->
                 TradeRecord(i, f[i][1], f[i][2], f[i][3], f[i][4], f[i][5],
                             f[i][6])] :
              f \in [1..n -> FillInputs] } : n \in 0..MaxFills }

\* the same slice, and every slice with two of its elements exchanged
Rearrangements(t) ==
    {t} \cup { [k \in 1..Len(t) |->
                   IF k = i THEN t[j] ELSE IF k = j THEN t[i] ELSE t[k]] :
               i \in 1..Len(t), j \in 1..Len(t) }

InitMatch ==
    /\ ValIdle /\ GfdIdle /\ FetchIdle /\ GetIdle /\ OtherIdle
    /\ mpc = "call"
    /\ ledger \in Ledgers
    /\ trades = ledger
    /\ calls = 1
    /\ tradesBySymbol = << >> /\ pending = {}
    /\ symbolTrades = << >> /\ tradeIdx = 0
    /\ openBuys = << >> /\ openSells = << >>
    /\ closedPositions = << >> /\ pairs = << >>
    /\ mRet = << >> /\ firstCall = [trades |-> << >>, ret |-> << >>]

\* lines 24-29
MatchBegin ==
    /\ mpc = "call"
    /\ tradesBySymbol' = groupBySymbol(trades)
    /\ pending' = symbolsOf(trades)
    /\ closedPositions' = << >>
    /\ pairs' = << >>
    /\ mpc' = "symbols"
    /\ UNCHANGED <<ledger, trades, calls, symbolTrades, tradeIdx, openBuys,
                   openSells, mRet, firstCall, valVars, gfdVars, fetchVars,
                   getVars, otherVars>>

\* lines 31-38: the range over the map visits the symbols in any order
NextSymbol_keepLots ==
    /\ mpc = "symbols"
    /\ \E symbol \in pending :
          /\ symbolTrades' = sortByTimestamp(tradesBySymbol[symbol])
          /\ pending' = pending \ {symbol}
    /\ tradeIdx' = 1
    /\ mpc' = "trades"
    /\ UNCHANGED <<ledger, trades, calls, tradesBySymbol, closedPositions,
                   openBuys, openSells,
                   pairs, mRet, firstCall, valVars, gfdVars, fetchVars, getVars, otherVars>>
NextSymbol ==
    /\ mpc = "symbols"
    /\ \E symbol \in pending :
          /\ symbolTrades' = sortByTimestamp(tradesBySymbol[symbol])
          /\ pending' = pending \ {symbol}
    /\ openBuys' = << >>
    /\ openSells' = << >>
    /\ tradeIdx' = 1
    /\ mpc' = "trades"
    /\ UNCHANGED <<ledger, trades, calls, tradesBySymbol, closedPositions,
                   pairs, mRet, firstCall, valVars, gfdVars, fetchVars, getVars, otherVars>>

\* lines 40-62, one trade of the symbol
ProcessTrade ==
    /\ mpc = "trades"
    /\ tradeIdx <= Len(symbolTrades)
    /\ LET b == tradeBody([openBuys |-> openBuys, openSells |-> openSells,
                           closedPositions |-> closedPositions,
                           pairs |-> pairs], symbolTrades[tradeIdx])
       IN  /\ openBuys' = b.openBuys
           /\ openSells' = b.openSells
           /\ closedPositions' = b.closedPositions
           /\ pairs' = b.pairs
    /\ tradeIdx' = tradeIdx + 1
    /\ mpc' = IF tradeIdx = Len(symbolTrades) THEN "symbols" ELSE "trades"
    /\ UNCHANGED <<ledger, trades, calls, tradesBySymbol, pending,
                   symbolTrades, mRet, firstCall, valVars, gfdVars, fetchVars,
                   getVars, otherVars>>

\* lines 65-70
MatchReturn ==
    /\ mpc = "symbols"
    /\ pending = {}
    /\ mRet' = sortByCloseTimeDesc(closedPositions)
    /\ mpc' = "returned"
    /\ UNCHANGED <<ledger, trades, calls, tradesBySymbol, pending,
                   symbolTrades, tradeIdx, openBuys, openSells,
                   closedPositions, pairs, firstCall, valVars, gfdVars,
                   fetchVars, getVars, otherVars>>

\* the caller calls again on the same fills; the locals of the first call
\* are gone and those of the second are fresh
CallAgain ==
    /\ mpc = "returned"
    /\ calls = 1
    /\ firstCall' = [trades |-> trades, ret |-> mRet]
    /\ \E t \in Rearrangements(trades) : trades' = t
    /\ calls' = 2
    /\ mRet' = << >>
    /\ tradesBySymbol' = << >> /\ pending' = {}
    /\ symbolTrades' = << >> /\ tradeIdx' = 0
    /\ openBuys' = << >> /\ openSells' = << >>
    /\ closedPositions' = << >> /\ pairs' = << >>
    /\ mpc' = "call"
    /\ UNCHANGED <<ledger, valVars, gfdVars, fetchVars, getVars, otherVars>>

NextMatch ==
    \/ MatchBegin
    \/ NextSymbol
    \/ ProcessTrade
    \/ MatchReturn
    \/ CallAgain

SpecMatch == InitMatch /\ [][NextMatch]_vars

\* ------------------------------------------------------------------
\* SpecGet: one call of market.Get by the loop of
\* fetchMarketDataForContext, its goroutines interleaved in every way.
\* getKlines returns a non-empty candle list (the closes) or an error.
\* ------------------------------------------------------------------
KlinesOk == [klines |-> <<10, 20>>, err |-> Nil]
KlinesFailed == [klines |-> << >>, err |-> <<T("request failed")>>]
KlinesOutcomes == {KlinesOk, KlinesFailed}
OIOutcomes == {<< >>, OI(700000), OI(800000)}

\* lines 176-195: the series computed from one interval's candles; from no
\* candles, the empty series (lines 589-592, 652-655)
calculateSeries(tf, kl) ==
    IF Len(kl) = 0 THEN <<[Interval |-> tf, Last |-> 0]>>
    ELSE <<[Interval |-> tf, Last |-> kl[Len(kl)]]>>

At(a) == [at |-> a, i |-> 0]

InitGet ==
    /\ ValIdle /\ GfdIdle /\ FetchIdle /\ MatchIdle /\ OtherIdle
    /\ gpc = At("add")
    /\ gIn \in { [symbol |-> "BTCUSDT", isExistingPosition |-> h] :
                 h \in BOOLEAN }
    /\ wg = 0
    /\ fetchPc = [tf \in TimeframeSet |-> "none"]
    /\ klines = [tf \in TimeframeSet |-> << >>]
    /\ errs = [tf \in TimeframeSet |-> Nil]
    /\ oiData = << >>
    /\ calcPc = [tf \in TimeframeSet |-> "none"]
    /\ contexts = [tf \in TimeframeSet |-> << >>]
    /\ gRet = [data |-> << >>, err |-> Nil]
    /\ gMap = << >>

\* line 104
GetAdd ==
    /\ gpc = At("add")
    /\ wg' = wg + WaitGroupAdd
    /\ gpc' = [at |-> "go", i |-> 1]
    /\ UNCHANGED <<gIn, fetchPc, klines, errs, oiData, calcPc, contexts, gRet,
                   gMap, valVars, gfdVars, fetchVars, matchVars, otherVars>>

\* lines 106-125: the go statements, in source order, none of them blocking
GetGo ==
    /\ gpc.at = "go"
    /\ fetchPc' = [fetchPc EXCEPT ![Timeframes[gpc.i]] = "fetching"]
    /\ gpc' = IF gpc.i = Len(Timeframes) THEN At("wait")
              ELSE [at |-> "go", i |-> gpc.i + 1]
    /\ UNCHANGED <<gIn, wg, klines, errs, oiData, calcPc, contexts, gRet,
                   gMap, valVars, gfdVars, fetchVars, matchVars, otherVars>>

\* the body of one fetch goroutine: getKlines and the assignment
FetchAssign(tf) ==
    /\ fetchPc[tf] = "fetching"
    /\ \E o \in KlinesOutcomes :
          /\ klines' = [klines EXCEPT ![tf] = o.klines]
          /\ errs' = [errs EXCEPT ![tf] = o.err]
    /\ fetchPc' = [fetchPc EXCEPT ![tf] = "assigned"]
    /\ UNCHANGED <<gpc, gIn, wg, oiData, calcPc, contexts, gRet, gMap,
                   valVars, gfdVars, fetchVars, matchVars, otherVars>>

\* its deferred wg.Done
FetchDone(tf) ==
    /\ fetchPc[tf] = "assigned"
    /\ wg' = wg - 1
    /\ fetchPc' = [fetchPc EXCEPT ![tf] = "done"]
    /\ UNCHANGED <<gpc, gIn, klines, errs, oiData, calcPc, contexts, gRet,
                   gMap, valVars, gfdVars, fetchVars, matchVars, otherVars>>

\* line 127
GetWait ==
    /\ gpc = At("wait")
    /\ wg = 0
    /\ gpc' = At("check")
    /\ UNCHANGED <<gIn, wg, fetchPc, klines, errs, oiData, calcPc, contexts,
                   gRet, gMap, valVars, gfdVars, fetchVars, matchVars, otherVars>>

\* lines 129-143
GetCheck ==
    /\ gpc = At("check")
    /\ LET e == firstFetchError(errs, 1)
       IN  IF e # Nil
           THEN /\ gRet' = [data |-> << >>, err |-> e]
                /\ gpc' = At("returned")
           ELSE /\ gpc' = At("oi")
                /\ UNCHANGED gRet
    /\ UNCHANGED <<gIn, wg, fetchPc, klines, errs, oiData, calcPc, contexts,
                   gMap, valVars, gfdVars, fetchVars, matchVars, otherVars>>

\* lines 146-175: the price, the open interest (its error is dropped), and
\* the second wg.Add
GetOI ==
    /\ gpc = At("oi")
    /\ \E o \in OIOutcomes : oiData' = o
    /\ wg' = wg + WaitGroupAdd
    /\ gpc' = [at |-> "calcgo", i |-> 1]
    /\ UNCHANGED <<gIn, fetchPc, klines, errs, calcPc, contexts, gRet, gMap,
                   valVars, gfdVars, fetchVars, matchVars, otherVars>>

\* lines 176-195: the go statements of the computations
GetCalcGo ==
    /\ gpc.at = "calcgo"
    /\ calcPc' = [calcPc EXCEPT ![Timeframes[gpc.i]] = "computing"]
    /\ gpc' = IF gpc.i = Len(Timeframes) THEN At("calcwait")
              ELSE [at |-> "calcgo", i |-> gpc.i + 1]
    /\ UNCHANGED <<gIn, wg, fetchPc, klines, errs, oiData, contexts, gRet,
                   gMap, valVars, gfdVars, fetchVars, matchVars, otherVars>>

\* one computing goroutine, with its deferred wg.Done
CalcAssign(tf) ==
    /\ calcPc[tf] = "computing"
    /\ contexts' = [contexts EXCEPT ![tf] = calculateSeries(tf, klines[tf])]
    /\ wg' = wg - 1
    /\ calcPc' = [calcPc EXCEPT ![tf] = "done"]
    /\ UNCHANGED <<gpc, gIn, fetchPc, klines, errs, oiData, gRet, gMap,
                   valVars, gfdVars, fetchVars, matchVars, otherVars>>

\* line 196
GetCalcWait ==
    /\ gpc = At("calcwait")
    /\ wg = 0
    /\ gpc' = At("return")
    /\ UNCHANGED <<gIn, wg, fetchPc, klines, errs, oiData, calcPc, contexts,
                   gRet, gMap, valVars, gfdVars, fetchVars, matchVars, otherVars>>

\* lines 198-210
GetReturn ==
    /\ gpc = At("return")
    /\ gRet' = [data |-> <<Data(gIn.symbol, currentPriceOf(klines["3m"]),
                                oiData, contexts)>>,
                err |-> Nil]
    /\ gpc' = At("returned")
    /\ UNCHANGED <<gIn, wg, fetchPc, klines, errs, oiData, calcPc, contexts,
                   gMap, valVars, gfdVars, fetchVars, matchVars, otherVars>>

\* engine.go lines 214-238: the caller's loop body for this symbol
CallerPlace ==
    /\ gpc = At("returned")
    /\ gMap' = fetchMarketDataForContext(
                  <<gIn.symbol>>,
                  IF gIn.isExistingPosition THEN <<gIn.symbol>> ELSE << >>,
                  [symbol \in {gIn.symbol} |-> gRet]).MarketDataMap
    /\ gpc' = At("placed")
    /\ UNCHANGED <<gIn, wg, fetchPc, klines, errs, oiData, calcPc, contexts,
                   gRet, valVars, gfdVars, fetchVars, matchVars, otherVars>>

NextGet ==
    \/ GetAdd
    \/ GetGo
    \/ \E tf \in TimeframeSet : FetchAssign(tf)
    \/ \E tf \in TimeframeSet : FetchDone(tf)
    \/ GetWait
    \/ GetCheck
    \/ GetOI
    \/ GetCalcGo
    \/ \E tf \in TimeframeSet : CalcAssign(tf)
    \/ GetCalcWait
    \/ GetReturn
    \/ CallerPlace

SpecGet == InitGet /\ [][NextGet]_vars

\* ------------------------------------------------------------------
\* The indicators of market/data.go (259-586) and the snapshot builders
\* (589-695).  A Kline is [High, Low, Close] in whole price units; a
\* float64 result is held as the exact fraction <<n, d>>.  Go slices are
\* indexed from 0: at(s, i) is s[i].
\* ------------------------------------------------------------------
Zero == Rat(0, 1)
R(n) == Rat(n, 1)
RatMul(x, y) == Rat(x[1] * y[1], x[2] * y[2])
\* x / y, y # 0
RatDiv(x, y) ==
    IF y[1] < 0 THEN Rat(-(x[1] * y[2]), x[2] * (-y[1]))
    ELSE Rat(x[1] * y[2], x[2] * y[1])
RatAbs(x) == <<Abs(x[1]), x[2]>>
RatLess(x, y) == x[1] * y[2] < y[1] * x[2]
RECURSIVE RatSum(_)
RatSum(q) == IF q = << >> THEN Zero ELSE RatAdd(q[1], RatSum(Tail(q)))
at(s, i) == s[i + 1]
Kline(high, low, close) == [High |-> high, Low |-> low, Close |-> close]
closesOf(ks) == [i \in 1..Len(ks) |-> R(ks[i].Close)]

\* lines 272-275 and 326-328: the recurrence from index i on
RECURSIVE emaFrom(_, _, _, _)
emaFrom(closes, i, ema, multiplier) ==
    IF i >= Len(closes) THEN ema
    ELSE emaFrom(closes, i + 1,
                 RatAdd(RatMul(RatSub(at(closes, i), ema), multiplier), ema),
                 multiplier)
\* lines 264-277 over the closing prices
emaOfCloses(closes, period) ==
    emaFrom(closes, period,
            RatDiv(RatSum(SubSeq(closes, 1, period)), R(period)),
            Rat(2, period + 1))
\* lines 259-278
calculateEMA(ks, period) ==
    IF Len(ks) < period THEN Zero
    ELSE emaOfCloses(closesOf(ks), period)

\* lines 308-329 over the closing prices: nil is << >>; emas[i] is 0 below
\* period-1 and the EMA of the first i+1 closes from there on
emaSeriesOfCloses(closes, period) ==
    IF Len(closes) < period THEN << >>
    ELSE [j \in 1..Len(closes) |->
             IF j < period THEN Zero
             ELSE emaOfCloses(SubSeq(closes, 1, j), period)]
calculateEMASeries(ks, period) == emaSeriesOfCloses(closesOf(ks), period)

\* lines 343-349, 363-370
change(ks, i) == at(ks, i).Close - at(ks, i - 1).Close
gainOf(c) == IF c > 0 THEN c ELSE 0
lossOf(c) == IF c > 0 THEN 0 ELSE -c
\* lines 362-373: Wilder smoothing of <<avgGain, avgLoss>> from index i on
RECURSIVE rsiAverages(_, _, _, _)
rsiAverages(ks, period, i, avg) ==
    IF i >= Len(ks) THEN avg
    ELSE rsiAverages(ks, period, i + 1,
           << RatDiv(RatAdd(RatMul(avg[1], R(period - 1)),
                            R(gainOf(change(ks, i)))), R(period)),
              RatDiv(RatAdd(RatMul(avg[2], R(period - 1)),
                            R(lossOf(change(ks, i)))), R(period)) >>)
\* lines 351-352
initialAverages(ks, period) ==
    << RatDiv(RatSum([i \in 1..period |-> R(gainOf(change(ks, i)))]), R(period)),
       RatDiv(RatSum([i \in 1..period |-> R(lossOf(change(ks, i)))]), R(period)) >>
\* lines 354-359 and 375-380
rsiOf(avg) ==
    IF RatLess(Zero, avg[2])
    THEN RatSub(R(100), RatDiv(R(100), RatAdd(R(1), RatDiv(avg[1], avg[2]))))
    ELSE R(100)
\* lines 295-305: the last element of calculateRSISeries (332-383)
calculateRSI(ks, period) ==
    IF Len(ks) <= period THEN Zero
    ELSE rsiOf(rsiAverages(ks, period, period + 1,
                           initialAverages(ks, period)))

\* lines 387-409: [macdLine, signalLine]
calculateMACDSeries(ks, fastPeriod, slowPeriod, signalPeriod) ==
    IF Len(ks) < slowPeriod THEN [macdLine |-> << >>, signalLine |-> << >>]
    ELSE LET emaFast == calculateEMASeries(ks, fastPeriod)
             emaSlow == calculateEMASeries(ks, slowPeriod)
             macdLine == [j \in 1..Len(ks) |->
                             IF j < slowPeriod THEN Zero
                             ELSE RatSub(emaFast[j], emaSlow[j])]
         IN  [macdLine |-> macdLine,
              signalLine |-> emaSeriesOfCloses(macdLine, signalPeriod)]
\* lines 281-291
calculateMACD(ks) ==
    IF Len(ks) < 26 THEN Zero
    ELSE LET macdLine == calculateMACDSeries(ks, 12, 26, 9).macdLine
         IN  IF Len(macdLine) = 0 THEN Zero ELSE macdLine[Len(macdLine)]

\* math.Max
mathMax(a, b) == IF a > b THEN a ELSE b
\* lines 418-428
trueRangeATR(ks, i) ==
    mathMax(at(ks, i).High - at(ks, i).Low,
        mathMax(Abs(at(ks, i).High - at(ks, i - 1).Close),
            Abs(at(ks, i).Low - at(ks, i - 1).Close)))
\* lines 438-440
RECURSIVE atrFrom(_, _, _, _)
atrFrom(ks, period, i, atr) ==
    IF i >= Len(ks) THEN atr
    ELSE atrFrom(ks, period, i + 1,
                 RatDiv(RatAdd(RatMul(atr, R(period - 1)),
                               R(trueRangeATR(ks, i))), R(period)))
\* lines 412-443
calculateATR(ks, period) ==
    IF Len(ks) <= period THEN Zero
    ELSE atrFrom(ks, period, period + 1,
                 RatDiv(RatSum([i \in 1..period |-> R(trueRangeATR(ks, i))]),
                        R(period)))

\* lines 499-503: TR as calculateADX computes it
trueRangeADX(ks, i) ==
    mathMax(at(ks, i).High - at(ks, i).Low,
        mathMax(Abs(at(ks, i).High - at(ks, i - 1).High),
            Abs(at(ks, i).Low - at(ks, i - 1).Low)))
\* lines 505-519
moveUp(ks, i) == at(ks, i).High - at(ks, i - 1).High
moveDown(ks, i) == at(ks, i - 1).Low - at(ks, i).Low
plusDM(ks, i) ==
    IF moveUp(ks, i) > moveDown(ks, i) /\ moveUp(ks, i) > 0
    THEN moveUp(ks, i) ELSE 0
minusDM(ks, i) ==
    IF moveDown(ks, i) > moveUp(ks, i) /\ moveDown(ks, i) > 0
    THEN moveDown(ks, i) ELSE 0
\* lines 527-545: smooth[i] for i >= period, of the series xs (xs[i] is the
\* value at index i, i = 1 .. len-1)
RECURSIVE wilderSum(_, _, _)
wilderSum(xs, period, i) ==
    IF i = period THEN RatSum([j \in 1..period |-> R(xs[j])])
    ELSE LET prev == wilderSum(xs, period, i - 1)
         IN  RatAdd(RatSub(prev, RatDiv(prev, R(period))), R(xs[i]))
\* lines 552-567: dx[i] for i >= period
dxAt(ks, period, i) ==
    LET n == Len(ks)
        smoothTR == wilderSum([j \in 1..(n - 1) |-> trueRangeADX(ks, j)], period, i)
        smoothPlusDM == wilderSum([j \in 1..(n - 1) |-> plusDM(ks, j)], period, i)
        smoothMinusDM == wilderSum([j \in 1..(n - 1) |-> minusDM(ks, j)], period, i)
        plusDI == IF smoothTR = Zero THEN Zero
                  ELSE RatMul(RatDiv(smoothPlusDM, smoothTR), R(100))
        minusDI == IF smoothTR = Zero THEN Zero
                   ELSE RatMul(RatDiv(smoothMinusDM, smoothTR), R(100))
        diSum == RatAdd(plusDI, minusDI)
    IN  IF diSum = Zero THEN Zero
        ELSE RatMul(RatDiv(RatAbs(RatSub(plusDI, minusDI)), diSum), R(100))
\* the indices at which calculateADX reads or writes its slices, all of
\* length len(klines): lines 493-520, 531-535, 536-538, 541-545, 552-567,
\* 573-575, 581-583
adxIndices(n, period) ==
    (0..(n - 1)) \cup (1..period) \cup (period..(2 * period - 1))
\* lines 581-583
RECURSIVE adxFrom(_, _, _, _)
adxFrom(ks, period, i, adx) ==
    IF i >= Len(ks) THEN adx
    ELSE adxFrom(ks, period, i + 1,
                 RatDiv(RatAdd(RatMul(adx, R(period - 1)), dxAt(ks, period, i)),
                        R(period)))
\* lines 484-586: [panic, value]; an index outside a slice panics
calculateADX(ks, period) ==
    IF Len(ks) <= period THEN [panic |-> FALSE, value |-> Zero]
    ELSE IF \E i \in adxIndices(Len(ks), period) : i < 0 \/ i >= Len(ks)
    THEN [panic |-> TRUE, value |-> Zero]
    ELSE [panic |-> FALSE,
          value |-> adxFrom(ks, period, 2 * period,
                       RatDiv(RatSum([j \in 1..period |->
                                         dxAt(ks, period, period + j - 1)]),
                              R(period)))]

\* lines 662-691: <<support, resistance>>
calculateSupportResistance(ks, period) ==
    IF Len(ks) = 0 THEN <<Zero, Zero>>
    ELSE LET startIndex == IF Len(ks) - period < 0 THEN 0
                           ELSE Len(ks) - period
             analysisKlines == SubSeq(ks, startIndex + 1, Len(ks))
             lows == { analysisKlines[i].Low : i \in 1..Len(analysisKlines) }
             highs == { analysisKlines[i].High : i \in 1..Len(analysisKlines) }
         IN  << R(CHOOSE l \in lows : \A x \in lows : l <= x),
                R(CHOOSE h \in highs : \A x \in highs : h >= x) >>

\* lines 589-599
calculateIntradaySeries(ks) ==
    IF Len(ks) = 0
    THEN [CurrentEMA20 |-> Zero, CurrentMACD |-> Zero, CurrentRSI7 |-> Zero,
          ATR14 |-> Zero]
    ELSE [CurrentEMA20 |-> calculateEMA(ks, 20),
          CurrentMACD |-> calculateMACD(ks),
          CurrentRSI7 |-> calculateRSI(ks, 7),
          ATR14 |-> calculateATR(ks, 14)]
\* lines 623-631
calculateOneHourContext(ks) ==
    IF Len(ks) = 0 THEN [EMA50 |-> Zero, ATR14 |-> Zero]
    ELSE [EMA50 |-> calculateEMA(ks, 50), ATR14 |-> calculateATR(ks, 14)]
\* lines 634-649: [panic, value]
calculateFourHourContext(ks) ==
    IF Len(ks) = 0
    THEN [panic |-> FALSE,
          value |-> [EMA20 |-> Zero, EMA50 |-> Zero, ADX14 |-> Zero, ATR14 |-> Zero,
                     NextSupport |-> Zero, NextResistance |-> Zero]]
    ELSE LET sr == calculateSupportResistance(ks, 20)
             adx == calculateADX(ks, 14)
         IN  [panic |-> adx.panic,
              value |-> [EMA20 |-> calculateEMA(ks, 20),
                         EMA50 |-> calculateEMA(ks, 50),
                         ADX14 |-> adx.value,
                         ATR14 |-> calculateATR(ks, 14),
                         NextSupport |-> sr[1], NextResistance |-> sr[2]]]
\* lines 652-659
calculateDailyContext(ks) ==
    IF Len(ks) = 0 THEN [EMA50 |-> Zero]
    ELSE [EMA50 |-> calculateEMA(ks, 50)]

\* ------------------------------------------------------------------
\* SpecIndicators: one call of an indicator or of a snapshot builder on a
\* bounded candle series
\* ------------------------------------------------------------------
MaxCandles == 4
MaxPeriod == 2
\* a candle whose prices did not parse (getKlines, lines 237-241, drops the
\* parse errors), a candle without movement, a candle with a range
CandleInputs == { Kline(0, 0, 0), Kline(2, 2, 2), Kline(3, 1, 1) }
FlatSeries(n) == [i \in 1..n |-> Kline(2, 2, 2)]
KlineInputs ==
    SeqsUpTo(CandleInputs, MaxCandles)
    \cup { FlatSeries(n) : n \in {15, 27, 28, 51} }
PeriodInputs == 1..MaxPeriod

InitIndicators ==
    /\ CoreIdle /\ PerfIdle /\ TmIdle /\ McpIdle /\ PmIdle
    /\ ipc = "call"
    /\ iIn \in { [klines |-> k, period |-> p] : k \in KlineInputs, p \in PeriodInputs }
    /\ iOut = [fn |-> "", panic |-> FALSE, value |-> Zero]

\* lines 259-278, called with a period
CallEMA ==
    /\ ipc = "call"
    /\ ipc' = "done"
    /\ LET r == [panic |-> FALSE, value |-> calculateEMA(iIn.klines, iIn.period)]
       IN  iOut' = [fn |-> "calculateEMA", panic |-> r.panic, value |-> r.value]
    /\ UNCHANGED <<iIn, coreVars, perfVars, tmVars, mcpVars, pmVars>>

\* lines 294-305
CallRSI ==
    /\ ipc = "call"
    /\ ipc' = "done"
    /\ LET r == [panic |-> FALSE, value |-> calculateRSI(iIn.klines, iIn.period)]
       IN  iOut' = [fn |-> "calculateRSI", panic |-> r.panic, value |-> r.value]
    /\ UNCHANGED <<iIn, coreVars, perfVars, tmVars, mcpVars, pmVars>>

\* lines 281-291
CallMACD ==
    /\ ipc = "call"
    /\ ipc' = "done"
    /\ LET r == [panic |-> FALSE, value |-> calculateMACD(iIn.klines)]
       IN  iOut' = [fn |-> "calculateMACD", panic |-> r.panic, value |-> r.value]
    /\ UNCHANGED <<iIn, coreVars, perfVars, tmVars, mcpVars, pmVars>>

\* lines 412-443
CallATR ==
    /\ ipc = "call"
    /\ ipc' = "done"
    /\ LET r == [panic |-> FALSE, value |-> calculateATR(iIn.klines, iIn.period)]
       IN  iOut' = [fn |-> "calculateATR", panic |-> r.panic, value |-> r.value]
    /\ UNCHANGED <<iIn, coreVars, perfVars, tmVars, mcpVars, pmVars>>

\* lines 484-586
CallADX ==
    /\ ipc = "call"
    /\ ipc' = "done"
    /\ LET r == calculateADX(iIn.klines, iIn.period)
       IN  iOut' = [fn |-> "calculateADX", panic |-> r.panic, value |-> r.value]
    /\ UNCHANGED <<iIn, coreVars, perfVars, tmVars, mcpVars, pmVars>>

\* lines 589-599
CallIntradaySeries ==
    /\ ipc = "call"
    /\ ipc' = "done"
    /\ LET r == [panic |-> FALSE, value |-> calculateIntradaySeries(iIn.klines)]
       IN  iOut' = [fn |-> "calculateIntradaySeries", panic |-> r.panic, value |-> r.value]
    /\ UNCHANGED <<iIn, coreVars, perfVars, tmVars, mcpVars, pmVars>>

\* lines 623-631
CallOneHourContext ==
    /\ ipc = "call"
    /\ ipc' = "done"
    /\ LET r == [panic |-> FALSE, value |-> calculateOneHourContext(iIn.klines)]
       IN  iOut' = [fn |-> "calculateOneHourContext", panic |-> r.panic, value |-> r.value]
    /\ UNCHANGED <<iIn, coreVars, perfVars, tmVars, mcpVars, pmVars>>

\* lines 634-649
CallFourHourContext ==
    /\ ipc = "call"
    /\ ipc' = "done"
    /\ LET r == calculateFourHourContext(iIn.klines)
       IN  iOut' = [fn |-> "calculateFourHourContext", panic |-> r.panic, value |-> r.value]
    /\ UNCHANGED <<iIn, coreVars, perfVars, tmVars, mcpVars, pmVars>>

\* lines 652-659
CallDailyContext ==
    /\ ipc = "call"
    /\ ipc' = "done"
    /\ LET r == [panic |-> FALSE, value |-> calculateDailyContext(iIn.klines)]
       IN  iOut' = [fn |-> "calculateDailyContext", panic |-> r.panic, value |-> r.value]
    /\ UNCHANGED <<iIn, coreVars, perfVars, tmVars, mcpVars, pmVars>>

NextIndicators ==
    \/ CallEMA
    \/ CallRSI
    \/ CallMACD
    \/ CallATR
    \/ CallADX
    \/ CallIntradaySeries
    \/ CallOneHourContext
    \/ CallFourHourContext
    \/ CallDailyContext

SpecIndicators == InitIndicators /\ [][NextIndicators]_vars

\* ------------------------------------------------------------------
\* Analyze (decision/performance.go 36-147).  A ClosedPosition is
\* [Symbol, NetProfit] and a DecisionRecord is its AccountState.TotalBalance,
\* both in whole units; a float64 result is an exact fraction.  SharpeRatio
\* is [kind |-> "unset"] (the zero value), [kind |-> "sentinel"] (999.0) or
\* [kind |-> "ratio", sign, ratioSquared, periods], which stands for
\* sign * sqrt(ratioSquared * 175200 / periods).
\* ------------------------------------------------------------------
\* lines 115-121: the returns of consecutive records, from record i on
RECURSIVE returnsFrom(_, _)
returnsFrom(records, i) ==
    IF i >= Len(records) THEN << >>
    ELSE LET currentEquity == at(records, i)
             previousEquity == at(records, i - 1)
         IN  (IF previousEquity > 0
              THEN <<Rat(currentEquity - previousEquity, previousEquity)>>
              ELSE << >>) \o returnsFrom(records, i + 1)
\* lines 125-129
avgReturnOf(returns) == RatDiv(RatSum(returns), R(Len(returns)))
\* lines 132-136: stdDev squared
varianceOf(returns) ==
    RatDiv(RatSum([i \in 1..Len(returns) |->
                      RatMul(RatSub(returns[i], avgReturnOf(returns)),
                             RatSub(returns[i], avgReturnOf(returns)))]),
           R(Len(returns)))
signOf(x) == IF x[1] > 0 THEN 1 ELSE IF x[1] < 0 THEN -1 ELSE 0
\* lines 112-147; math.Sqrt(x) > 0 exactly when x > 0
sharpeRatioOf(records) ==
    IF Len(records) > 1 /\ returnsFrom(records, 1) # << >>
    THEN LET returns == returnsFrom(records, 1)
             avgReturn == avgReturnOf(returns)
         IN  IF RatLess(Zero, varianceOf(returns))
             THEN [kind |-> "ratio", sign |-> signOf(avgReturn),
                   ratioSquared |-> RatDiv(RatMul(avgReturn, avgReturn),
                                           varianceOf(returns)),
                   periods |-> Len(returns)]
             ELSE [kind |-> "sentinel"]
    ELSE [kind |-> "unset"]
\* lines 48-61
RECURSIVE sumOf(_)
sumOf(q) == IF q = << >> THEN 0 ELSE q[1] + sumOf(Tail(q))
totalWinAmount(closed) == sumOf([i \in 1..Len(closed) |-> gainOf(closed[i].NetProfit)])
totalLossAmount(closed) ==
    sumOf([i \in 1..Len(closed) |->
               IF closed[i].NetProfit < 0 THEN closed[i].NetProfit ELSE 0])
\* lines 87-91
profitFactorOf(closed) ==
    IF totalLossAmount(closed) # 0
    THEN Rat(totalWinAmount(closed), -totalLossAmount(closed))
    ELSE IF totalWinAmount(closed) > 0 THEN R(999)
    ELSE Zero
\* lines 36-147: [analysis, err]
Analyze(dbErr, closed, records) ==
    IF dbErr # Nil THEN [analysis |-> << >>, err |-> dbErr]
    ELSE [analysis |->
            <<[TotalTrades |-> Len(closed),
               WinningTrades |-> Cardinality({ i \in 1..Len(closed) : closed[i].NetProfit > 0 }),
               LosingTrades |-> Cardinality({ i \in 1..Len(closed) : closed[i].NetProfit < 0 }),
               ProfitFactor |-> profitFactorOf(closed),
               SharpeRatio |-> sharpeRatioOf(records)]>>,
          err |-> Nil]

\* ------------------------------------------------------------------
\* SpecAnalyze: one call of Analyze
\* ------------------------------------------------------------------
MaxRecords == 3
\* balances whose returns float64 holds exactly
BalanceInputs == {0, 1, 2, 4}
RecordInputs == SeqsUpTo(BalanceInputs, MaxRecords)
ClosedInputs ==
    { << >>,
      <<[Symbol |-> "BTCUSDT", NetProfit |-> 2]>>,
      <<[Symbol |-> "BTCUSDT", NetProfit |-> 2], [Symbol |-> "ETHUSDT", NetProfit |-> -1]>> }
DbErrInputs == { Nil, <<T("querying trades failed")>> }

InitAnalyze ==
    /\ CoreIdle /\ IndIdle /\ TmIdle /\ McpIdle /\ PmIdle
    /\ apc = "call"
    /\ aIn \in { [dbErr |-> e, closedPositions |-> c, records |-> r] :
                 e \in DbErrInputs, c \in ClosedInputs, r \in RecordInputs }
    /\ aOut = [analysis |-> << >>, err |-> Nil]

\* lines 36-147
AnalyzeCall ==
    /\ apc = "call"
    /\ apc' = "done"
    /\ aOut' = Analyze(aIn.dbErr, aIn.closedPositions, aIn.records)
    /\ UNCHANGED <<aIn, coreVars, indVars, tmVars, mcpVars, pmVars>>

NextAnalyze == AnalyzeCall

SpecAnalyze == InitAnalyze /\ [][NextAnalyze]_vars

\* ------------------------------------------------------------------
\* Client.CallWithMessages (mcp/client.go 192-238) and isRetryableError
\* (342-359).  An error text is a sequence of tokens; the substrings
\* isRetryableError looks for are tokens of their own.
\* ------------------------------------------------------------------
ProviderDeepSeek == "deepseek"
ProviderGemini == "gemini"
\* lines 345-352
retryableErrors ==
    { T("EOF"), T("timeout"), T("connection reset"), T("connection refused"),
      T("temporary failure"), T("no such host") }
\* lines 342-359: strings.Contains(errStr, retryable) for one of them
isRetryableError(e) == \E i \in 1..Len(e) : e[i] \in retryableErrors
clientMaxRetries_four == 3 + 1
\* line 198
clientMaxRetries == 3
\* lines 193-195
noKeyError == <<T("AI API key not set")>>
\* line 237
exhaustedError(e) ==
    <<T("still failing after "), T(ToString(clientMaxRetries)), T(" retries: ")>> \o e
\* lines 209-214: the function that makes the one HTTP call
providerCallOf(provider) ==
    IF provider = ProviderGemini THEN "callGeminiOnce" ELSE "callOnce"

\* ------------------------------------------------------------------
\* SpecCall: one invocation of CallWithMessages
\* ------------------------------------------------------------------
KeyInputs == { << >>, <<T("sk-key")>> }
ClientInputs ==
    { [APIKey |-> a, GeminiAPIKey |-> g, Provider |-> p] :
      a \in KeyInputs, g \in KeyInputs, p \in {ProviderDeepSeek, ProviderGemini} }
\* what one call to the provider gives: a response, a network error, a
\* non-network error, an API error whose text holds the word timeout
ProviderOutcomes ==
    { [result |-> <<T("response")>>, err |-> Nil],
      [result |-> << >>, err |-> <<T("sending request failed: "), T("EOF")>>],
      [result |-> << >>, err |-> <<T("sending request failed: "), T("connection reset")>>],
      [result |-> << >>, err |-> <<T("API returned an error (status 401)")>>],
      [result |-> << >>, err |-> <<T("API returned an error (status 504): "),
                                   T("upstream "), T("timeout")>>] }

InitCall ==
    /\ CoreIdle /\ IndIdle /\ PerfIdle /\ TmIdle /\ PmIdle
    /\ cpc = "call"
    /\ cfg \in ClientInputs
    /\ cAttempt = 0 /\ lastErr = Nil
    /\ providerCalls = << >> /\ slept = << >>
    /\ cRet = [result |-> << >>, err |-> Nil]

\* lines 193-201: the key check, the loop is entered
CallBegin ==
    /\ cpc = "call"
    /\ IF cfg.APIKey = << >> /\ cfg.GeminiAPIKey = << >>
       THEN /\ cRet' = [result |-> << >>, err |-> noKeyError]
            /\ cpc' = "returned"
            /\ UNCHANGED cAttempt
       ELSE /\ cAttempt' = 1
            /\ cpc' = "loop"
            /\ UNCHANGED cRet
    /\ UNCHANGED <<cfg, lastErr, providerCalls, slept,
                   coreVars, indVars, perfVars, tmVars, pmVars>>

\* lines 201-235: one iteration, with the call to the provider and the
\* wait before the next one
CallOnce ==
    /\ cpc = "loop"
    /\ cAttempt <= clientMaxRetries
    /\ \E o \in ProviderOutcomes :
          /\ providerCalls' = Append(providerCalls,
                                     [fn |-> providerCallOf(cfg.Provider),
                                      result |-> o.result, err |-> o.err])
          /\ IF o.err = Nil
             THEN /\ cRet' = [result |-> o.result, err |-> Nil]
                  /\ cpc' = "returned"
                  /\ UNCHANGED <<cAttempt, lastErr, slept>>
             ELSE IF ~isRetryableError(o.err)
             THEN /\ lastErr' = o.err
                  /\ cRet' = [result |-> << >>, err |-> o.err]
                  /\ cpc' = "returned"
                  /\ UNCHANGED <<cAttempt, slept>>
             ELSE /\ lastErr' = o.err
                  /\ slept' = IF cAttempt < clientMaxRetries
                              THEN Append(slept, cAttempt * 2) ELSE slept
                  /\ cAttempt' = cAttempt + 1
                  /\ UNCHANGED <<cRet, cpc>>
    /\ UNCHANGED <<cfg, coreVars, indVars, perfVars, tmVars, pmVars>>

\* lines 201 and 237: the loop test fails
CallExhausted ==
    /\ cpc = "loop"
    /\ cAttempt > clientMaxRetries
    /\ cRet' = [result |-> << >>, err |-> exhaustedError(lastErr)]
    /\ cpc' = "returned"
    /\ UNCHANGED <<cfg, cAttempt, lastErr, providerCalls, slept,
                   coreVars, indVars, perfVars, tmVars, pmVars>>

NextCall ==
    \/ CallBegin
    \/ CallOnce
    \/ CallExhausted

SpecCall == InitCall /\ [][NextCall]_vars

\* ------------------------------------------------------------------
\* TraderManager (manager/trader_manager.go): StartTrader (205-240),
\* StopTrader (243-257), SetDecisionMaker (260-282), called concurrently.
\* tm.mu is a sync.RWMutex: read locks are shared, a goroutine waiting in
\* Lock keeps new readers out.  at.Run and at.Stop are calls into the
\* trader, which take time and return an error or nil.
\* ------------------------------------------------------------------
\* tm.traders
TraderIDs == {"t1", "t2"}
TmCallers == {"c1", "c2"}
\* RLock can be taken
canRLock(mu) == mu.writer = {} /\ mu.pending = {}
\* Lock can be taken by a goroutine waiting for it
canLock(mu) == mu.writer = {} /\ mu.readers = {}
\* lines 209-211, 247-249
notExistsError(traderID) == <<T("trader ID '"), T(traderID), T("' does not exist")>>
\* line 232
startFailedError(e) == <<T("trader start failed: ")>> \o e
\* line 237
startTimeoutError == <<T("trader start timed out")>>
\* line 254
stopFailedError(e) == <<T("stopping trader failed: ")>> \o e
\* line 278
notFoundError(decisionMakerID) ==
    <<T("trader ID '"), T(decisionMakerID), T("' not found")>>
\* lines 267-275: the flags after the loop over tm.traders
flagsAfterLoop_keepOnMiss(flags, decisionMakerID) ==
    IF decisionMakerID \in DOMAIN flags
    THEN [id \in DOMAIN flags |-> id = decisionMakerID]
    ELSE flags
flagsAfterLoop(flags, decisionMakerID) ==
    [id \in DOMAIN flags |-> id = decisionMakerID]

\* ------------------------------------------------------------------
\* SpecManager: every caller makes one call
\* ------------------------------------------------------------------
TmOps == {"StartTrader", "StopTrader", "SetDecisionMaker"}
TmIDInputs == TraderIDs \cup {"t9"}
TraderErrors == { Nil, <<T("exchange not reachable")>> }

InitManager ==
    /\ CoreIdle /\ IndIdle /\ PerfIdle /\ McpIdle /\ PmIdle
    /\ tmMu = [readers |-> {}, writer |-> {}, pending |-> {}]
    /\ tmPc = [c \in TmCallers |-> "start"]
    /\ tmCall \in [TmCallers -> { [op |-> o, id |-> i] : o \in TmOps, i \in TmIDInputs }]
    /\ tmRet = [c \in TmCallers |-> Nil]
    /\ isDecisionMaker = [id \in TraderIDs |-> id = "t1"]
    /\ runPc = [c \in TmCallers |-> "none"]
    /\ errChan = [c \in TmCallers |-> << >>]
    /\ flagsAt = [c \in TmCallers |-> [before |-> << >>, after |-> << >>]]

\* lines 206 and 244: tm.mu.RLock()
TmRLock(c) ==
    /\ tmPc[c] = "start"
    /\ tmCall[c].op \in {"StartTrader", "StopTrader"}
    /\ canRLock(tmMu)
    /\ tmMu' = [tmMu EXCEPT !.readers = @ \cup {c}]
    /\ tmPc' = [tmPc EXCEPT ![c] = "lookup"]
    /\ UNCHANGED <<tmCall, tmRet, isDecisionMaker, runPc, errChan, flagsAt,
                   coreVars, indVars, perfVars, mcpVars, pmVars>>

\* lines 209-225: the lookup; the channel and the goroutine
StartLookup(c) ==
    /\ tmPc[c] = "lookup"
    /\ tmCall[c].op = "StartTrader"
    /\ IF tmCall[c].id \notin TraderIDs
       THEN /\ tmRet' = [tmRet EXCEPT ![c] = notExistsError(tmCall[c].id)]
            /\ tmMu' = [tmMu EXCEPT !.readers = @ \ {c}]
            /\ tmPc' = [tmPc EXCEPT ![c] = "done"]
            /\ UNCHANGED runPc
       ELSE /\ runPc' = [runPc EXCEPT ![c] = "spawned"]
            /\ tmPc' = [tmPc EXCEPT ![c] = "select"]
            /\ UNCHANGED <<tmRet, tmMu>>
    /\ UNCHANGED <<tmCall, isDecisionMaker, errChan, flagsAt,
                   coreVars, indVars, perfVars, mcpVars, pmVars>>

\* line 218: the goroutine calls at.Run()
RunBegin(c) ==
    /\ runPc[c] = "spawned"
    /\ runPc' = [runPc EXCEPT ![c] = "running"]
    /\ UNCHANGED <<tmMu, tmPc, tmCall, tmRet, isDecisionMaker, errChan, flagsAt,
                   coreVars, indVars, perfVars, mcpVars, pmVars>>

\* lines 218-224: at.Run() returns and its result goes to the channel
RunEnd(c) ==
    /\ runPc[c] = "running"
    /\ \E e \in TraderErrors : errChan' = [errChan EXCEPT ![c] = <<e>>]
    /\ runPc' = [runPc EXCEPT ![c] = "returned"]
    /\ UNCHANGED <<tmMu, tmPc, tmCall, tmRet, isDecisionMaker, flagsAt,
                   coreVars, indVars, perfVars, mcpVars, pmVars>>

\* lines 228-235: the result arrives within the five seconds
StartReceive(c) ==
    /\ tmPc[c] = "select"
    /\ errChan[c] # << >>
    /\ tmRet' = [tmRet EXCEPT ![c] = IF errChan[c][1] # Nil
                                     THEN startFailedError(errChan[c][1])
                                     ELSE Nil]
    /\ errChan' = [errChan EXCEPT ![c] = << >>]
    /\ tmMu' = [tmMu EXCEPT !.readers = @ \ {c}]
    /\ tmPc' = [tmPc EXCEPT ![c] = "done"]
    /\ UNCHANGED <<tmCall, isDecisionMaker, runPc, flagsAt,
                   coreVars, indVars, perfVars, mcpVars, pmVars>>

\* lines 236-238: the five seconds pass first
StartTimeout(c) ==
    /\ tmPc[c] = "select"
    /\ tmRet' = [tmRet EXCEPT ![c] = startTimeoutError]
    /\ tmMu' = [tmMu EXCEPT !.readers = @ \ {c}]
    /\ tmPc' = [tmPc EXCEPT ![c] = "done"]
    /\ UNCHANGED <<tmCall, isDecisionMaker, runPc, errChan, flagsAt,
                   coreVars, indVars, perfVars, mcpVars, pmVars>>

\* lines 247-253: the lookup; at.Stop() is called
StopLookup(c) ==
    /\ tmPc[c] = "lookup"
    /\ tmCall[c].op = "StopTrader"
    /\ IF tmCall[c].id \notin TraderIDs
       THEN /\ tmRet' = [tmRet EXCEPT ![c] = notExistsError(tmCall[c].id)]
            /\ tmMu' = [tmMu EXCEPT !.readers = @ \ {c}]
            /\ tmPc' = [tmPc EXCEPT ![c] = "done"]
       ELSE /\ tmPc' = [tmPc EXCEPT ![c] = "stopping"]
            /\ UNCHANGED <<tmRet, tmMu>>
    /\ UNCHANGED <<tmCall, isDecisionMaker, runPc, errChan, flagsAt,
                   coreVars, indVars, perfVars, mcpVars, pmVars>>

\* lines 253-256: at.Stop() returns
StopReturn(c) ==
    /\ tmPc[c] = "stopping"
    /\ \E e \in TraderErrors :
          tmRet' = [tmRet EXCEPT ![c] = IF e # Nil THEN stopFailedError(e) ELSE Nil]
    /\ tmMu' = [tmMu EXCEPT !.readers = @ \ {c}]
    /\ tmPc' = [tmPc EXCEPT ![c] = "done"]
    /\ UNCHANGED <<tmCall, isDecisionMaker, runPc, errChan, flagsAt,
                   coreVars, indVars, perfVars, mcpVars, pmVars>>

\* line 261: tm.mu.Lock() is called and waits
SetLockWait(c) ==
    /\ tmPc[c] = "start"
    /\ tmCall[c].op = "SetDecisionMaker"
    /\ tmMu' = [tmMu EXCEPT !.pending = @ \cup {c}]
    /\ tmPc' = [tmPc EXCEPT ![c] = "locking"]
    /\ UNCHANGED <<tmCall, tmRet, isDecisionMaker, runPc, errChan, flagsAt,
                   coreVars, indVars, perfVars, mcpVars, pmVars>>

\* line 261: tm.mu.Lock() returns
SetLockAcquire(c) ==
    /\ tmPc[c] = "locking"
    /\ canLock(tmMu)
    /\ tmMu' = [tmMu EXCEPT !.pending = @ \ {c}, !.writer = {c}]
    /\ tmPc' = [tmPc EXCEPT ![c] = "locked"]
    /\ flagsAt' = [flagsAt EXCEPT ![c].before = isDecisionMaker]
    /\ UNCHANGED <<tmCall, tmRet, isDecisionMaker, runPc, errChan,
                   coreVars, indVars, perfVars, mcpVars, pmVars>>

\* lines 264-281: the loop over tm.traders, the result, the unlock
SetDecisionMakerBody(c) ==
    /\ tmPc[c] = "locked"
    /\ isDecisionMaker' = flagsAfterLoop(isDecisionMaker, tmCall[c].id)
    /\ tmRet' = [tmRet EXCEPT ![c] = IF tmCall[c].id \in TraderIDs THEN Nil
                                     ELSE notFoundError(tmCall[c].id)]
    /\ flagsAt' = [flagsAt EXCEPT ![c].after = isDecisionMaker']
    /\ tmMu' = [tmMu EXCEPT !.writer = {}]
    /\ tmPc' = [tmPc EXCEPT ![c] = "done"]
    /\ UNCHANGED <<tmCall, runPc, errChan,
                   coreVars, indVars, perfVars, mcpVars, pmVars>>

NextManager ==
    \E c \in TmCallers :
        \/ TmRLock(c)
        \/ StartLookup(c)
        \/ RunBegin(c)
        \/ RunEnd(c)
        \/ StartReceive(c)
        \/ StartTimeout(c)
        \/ StopLookup(c)
        \/ StopReturn(c)
        \/ SetLockWait(c)
        \/ SetLockAcquire(c)
        \/ SetDecisionMakerBody(c)

SpecManager == InitManager /\ [][NextManager]_vars

\* ------------------------------------------------------------------
\* PromptManager: LoadTemplates (50-113), GetTemplate (116-127),
\* GetAllTemplateNames (130-140), ReloadTemplates (156-162), called
\* concurrently on one manager.  pm.mu is a sync.RWMutex: a goroutine may
\* hold several read locks, and a goroutine waiting in Lock keeps new
\* read locks out.
\* ------------------------------------------------------------------
PmCallers == {"g1", "g2"}
\* the directories a call may name and the .txt files in them
dirExists(dir) == dir = "prompts"
filesOf(dir) ==
    IF dir = "prompts"
    THEN { [id |-> "default", readable |-> TRUE],
           [id |-> "broken", readable |-> FALSE] }
    ELSE {}
\* pm.mu.RLock() returns
pmCanRLock(mu) == mu.writer = {} /\ mu.pending = {}
\* pm.mu.Lock() returns
pmCanLock(mu) == mu.writer = {} /\ \A g \in DOMAIN mu.readers : mu.readers[g] = 0
\* line 55
dirMissingError(dir) == <<T("prompt directory does not exist: "), T(dir)>>
\* line 123
templateMissingError(name) == <<T("prompt template does not exist: "), T(name)>>
\* lines 72-109: the templates after the loop over the files
loadedTemplates(old, dir) ==
    old \cup { f.id : f \in { x \in filesOf(dir) : x.readable } }

\* ------------------------------------------------------------------
\* SpecPrompt: every goroutine makes one call
\* ------------------------------------------------------------------
TemplateNameInputs == {"default", "missing"}
DirInputs == {"prompts", "nodir"}
PmCallInputs ==
    { [op |-> "GetTemplate", arg |-> n] : n \in TemplateNameInputs }
    \cup { [op |-> o, arg |-> d] : o \in {"LoadTemplates", "ReloadTemplates"},
                                  d \in DirInputs }

InitPrompt ==
    /\ CoreIdle /\ IndIdle /\ PerfIdle /\ TmIdle /\ McpIdle
    /\ pmMu = [readers |-> [g \in PmCallers |-> 0], writer |-> {}, pending |-> {}]
    /\ pmPc = [g \in PmCallers |-> "start"]
    /\ pmCall \in [PmCallers -> PmCallInputs]
    /\ templates \in { {}, {"default"} }
    /\ pmRet = [g \in PmCallers |-> [template |-> << >>, names |-> {}, err |-> Nil]]

\* line 117: pm.mu.RLock() of GetTemplate
GetRLock(g) ==
    /\ pmPc[g] = "start"
    /\ pmCall[g].op = "GetTemplate"
    /\ pmCanRLock(pmMu)
    /\ pmMu' = [pmMu EXCEPT !.readers[g] = @ + 1]
    /\ pmPc' = [pmPc EXCEPT ![g] = "names"]
    /\ UNCHANGED <<pmCall, templates, pmRet,
                   coreVars, indVars, perfVars, tmVars, mcpVars>>

\* lines 120 and 131: GetTemplate calls GetAllTemplateNames, whose
\* pm.mu.RLock() returns
NamesRLock(g) ==
    /\ pmPc[g] = "names"
    /\ pmCanRLock(pmMu)
    /\ pmMu' = [pmMu EXCEPT !.readers[g] = @ + 1]
    /\ pmPc' = [pmPc EXCEPT ![g] = "namesLocked"]
    /\ UNCHANGED <<pmCall, templates, pmRet,
                   coreVars, indVars, perfVars, tmVars, mcpVars>>

\* lines 132-139: the names are collected and the inner read lock released
NamesReturn(g) ==
    /\ pmPc[g] = "namesLocked"
    /\ pmRet' = [pmRet EXCEPT ![g].names = templates]
    /\ pmMu' = [pmMu EXCEPT !.readers[g] = @ - 1]
    /\ pmPc' = [pmPc EXCEPT ![g] = "lookup"]
    /\ UNCHANGED <<pmCall, templates,
                   coreVars, indVars, perfVars, tmVars, mcpVars>>

\* lines 121-126: the lookup, the result, the deferred RUnlock
GetTemplateReturn(g) ==
    /\ pmPc[g] = "lookup"
    /\ pmRet' = [pmRet EXCEPT
                   ![g].template = IF pmCall[g].arg \in templates
                                   THEN <<pmCall[g].arg>> ELSE << >>,
                   ![g].err = IF pmCall[g].arg \in templates
                              THEN Nil ELSE templateMissingError(pmCall[g].arg)]
    /\ pmMu' = [pmMu EXCEPT !.readers[g] = @ - 1]
    /\ pmPc' = [pmPc EXCEPT ![g] = "done"]
    /\ UNCHANGED <<pmCall, templates,
                   coreVars, indVars, perfVars, tmVars, mcpVars>>

\* line 157: pm.mu.Lock() of ReloadTemplates is called and waits
ReloadLockWait(g) ==
    /\ pmPc[g] = "start"
    /\ pmCall[g].op = "ReloadTemplates"
    /\ pmMu' = [pmMu EXCEPT !.pending = @ \cup {g}]
    /\ pmPc' = [pmPc EXCEPT ![g] = "reloadLocking"]
    /\ UNCHANGED <<pmCall, templates, pmRet,
                   coreVars, indVars, perfVars, tmVars, mcpVars>>

\* line 157: pm.mu.Lock() of ReloadTemplates returns
ReloadLockAcquire(g) ==
    /\ pmPc[g] = "reloadLocking"
    /\ pmCanLock(pmMu)
    /\ pmMu' = [pmMu EXCEPT !.pending = @ \ {g}, !.writer = {g}]
    /\ pmPc' = [pmPc EXCEPT ![g] = "reloadLocked"]
    /\ UNCHANGED <<pmCall, templates, pmRet,
                   coreVars, indVars, perfVars, tmVars, mcpVars>>

\* lines 158-161: the map is replaced by an empty one, the lock released,
\* LoadTemplates called
ReloadClear(g) ==
    /\ pmPc[g] = "reloadLocked"
    /\ templates' = {}
    /\ pmMu' = [pmMu EXCEPT !.writer = {}]
    /\ pmPc' = [pmPc EXCEPT ![g] = "load"]
    /\ UNCHANGED <<pmCall, pmRet,
                   coreVars, indVars, perfVars, tmVars, mcpVars>>

\* line 51: pm.mu.Lock() of LoadTemplates is called and waits
LoadLockWait(g) ==
    /\ \/ pmPc[g] = "start" /\ pmCall[g].op = "LoadTemplates"
       \/ pmPc[g] = "load"
    /\ pmMu' = [pmMu EXCEPT !.pending = @ \cup {g}]
    /\ pmPc' = [pmPc EXCEPT ![g] = "loadLocking"]
    /\ UNCHANGED <<pmCall, templates, pmRet,
                   coreVars, indVars, perfVars, tmVars, mcpVars>>

\* line 51: pm.mu.Lock() of LoadTemplates returns
LoadLockAcquire(g) ==
    /\ pmPc[g] = "loadLocking"
    /\ pmCanLock(pmMu)
    /\ pmMu' = [pmMu EXCEPT !.pending = @ \ {g}, !.writer = {g}]
    /\ pmPc' = [pmPc EXCEPT ![g] = "loadLocked"]
    /\ UNCHANGED <<pmCall, templates, pmRet,
                   coreVars, indVars, perfVars, tmVars, mcpVars>>

\* lines 54-112: the directory is read, the templates stored, the
\* deferred Unlock
LoadBody(g) ==
    /\ pmPc[g] = "loadLocked"
    /\ IF ~dirExists(pmCall[g].arg)
       THEN /\ pmRet' = [pmRet EXCEPT ![g].err = dirMissingError(pmCall[g].arg)]
            /\ UNCHANGED templates
       ELSE /\ templates' = loadedTemplates(templates, pmCall[g].arg)
            /\ UNCHANGED pmRet
    /\ pmMu' = [pmMu EXCEPT !.writer = {}]
    /\ pmPc' = [pmPc EXCEPT ![g] = "done"]
    /\ UNCHANGED <<pmCall, coreVars, indVars, perfVars, tmVars, mcpVars>>

NextPrompt ==
    \E g \in PmCallers :
        \/ GetRLock(g)
        \/ NamesRLock(g)
        \/ NamesReturn(g)
        \/ GetTemplateReturn(g)
        \/ ReloadLockWait(g)
        \/ ReloadLockAcquire(g)
        \/ ReloadClear(g)
        \/ LoadLockWait(g)
        \/ LoadLockAcquire(g)
        \/ LoadBody(g)

SpecPrompt == InitPrompt /\ [][NextPrompt]_vars

\* ------------------------------------------------------------------
\* Properties of validateDecision (SpecValidate)
\* ------------------------------------------------------------------
vd == vIn.d
vOpen == vd.Action = "open_long" \/ vd.Action = "open_short"
vBtcEth == vd.Symbol \in {"BTCUSDT", "ETHUSDT"}
vPrice == vIn.mk.CurrentPrice

\* C7: an accepted open_long/open_short decision has leverage in [1, cap]
\* and 20 <= position size <= equity * factor * 1.01, with (cap, factor) =
\* (btcEthLeverage, 10) exactly for BTCUSDT/ETHUSDT and (altcoinLeverage, 1.5)
\* for every other symbol; so every decision outside these bounds is rejected.
C7_LeverageAndSizeBounds ==
    (vpc = "done" /\ vOpen /\ vErr = Nil) =>
        /\ vd.Leverage >= 1
        /\ vBtcEth => vd.Leverage <= vIn.btcEthLeverage
        /\ ~vBtcEth => vd.Leverage <= vIn.altcoinLeverage
        /\ vd.PositionSizeUSD >= 20
        /\ vBtcEth => vd.PositionSizeUSD * 100 <= vIn.accountEquity * 10 * 101
        /\ ~vBtcEth => vd.PositionSizeUSD * 1000 <= vIn.accountEquity * 15 * 101

\* an altcoin decision accepted at its leverage cap, below the BTC/ETH cap,
\* with the largest whole position size the altcoin cap of equity 100 admits
C7_Witness ==
    /\ vpc = "done" /\ vOpen /\ vErr = Nil
    /\ ~vBtcEth
    /\ vd.Leverage = vIn.altcoinLeverage
    /\ vIn.altcoinLeverage < vIn.btcEthLeverage
    /\ vd.PositionSizeUSD = 151

\* C8: an open decision with stop-loss <= 0 or take-profit <= 0 is rejected;
\* an accepted open_long has stop-loss < market price < take-profit, an
\* accepted open_short has take-profit < market price < stop-loss.
C8_StopTargetOrder ==
    (vpc = "done" /\ vOpen) =>
        /\ (vd.StopLoss <= 0 \/ vd.TakeProfit <= 0) => vErr # Nil
        /\ vErr = Nil =>
              /\ ~vIn.mk.err
              /\ vd.Action = "open_long" =>
                    (vd.StopLoss < vPrice /\ vPrice < vd.TakeProfit)
              /\ vd.Action = "open_short" =>
                    (vd.TakeProfit < vPrice /\ vPrice < vd.StopLoss)

\* an accepted short: the market price lies strictly between its
\* take-profit and its stop-loss
C8_Witness ==
    /\ vpc = "done" /\ vErr = Nil
    /\ vd.Action = "open_short"
    /\ vd.TakeProfit < vPrice /\ vPrice < vd.StopLoss

\* every rule of an open decision other than the risk/reward rule is met
vOtherRulesMet ==
    /\ vd.Leverage >= 1
    /\ vd.Leverage <= (IF vBtcEth THEN vIn.btcEthLeverage ELSE vIn.altcoinLeverage)
    /\ vd.PositionSizeUSD >= 20
    /\ vBtcEth => vd.PositionSizeUSD * 100 <= vIn.accountEquity * 10 * 101
    /\ ~vBtcEth => vd.PositionSizeUSD * 1000 <= vIn.accountEquity * 15 * 101
    /\ vd.StopLoss > 0 /\ vd.TakeProfit > 0
    /\ ~vIn.mk.err
    /\ vd.Action = "open_long" => (vd.StopLoss < vPrice /\ vPrice < vd.TakeProfit)
    /\ vd.Action = "open_short" => (vd.TakeProfit < vPrice /\ vPrice < vd.StopLoss)
vRisk == IF vd.Action = "open_long" THEN vPrice - vd.StopLoss ELSE vd.StopLoss - vPrice
vReward == IF vd.Action = "open_long" THEN vd.TakeProfit - vPrice ELSE vPrice - vd.TakeProfit

\* C9: with risk and reward the distances of stop-loss and take-profit from
\* the market price fetched by the validation, an open decision that meets
\* every other rule is rejected when reward/risk < 1.9 and is not rejected
\* when reward/risk >= 1.9, whatever its confidence.
C9_RiskRewardThreshold ==
    (vpc = "done" /\ vOpen /\ vOtherRulesMet) =>
        (vErr = Nil <=> 10 * vReward >= 19 * vRisk)

\* C10: for an action other than open_long, open_short and
\* move_sl_to_breakeven the outcome depends on the action alone: the close,
\* partial-close, hold and wait actions are accepted whatever the other
\* fields and the account are, every action outside the valid set is rejected.
C10_ActionAlone ==
    (vpc = "done" /\ ~vOpen /\ vd.Action # "move_sl_to_breakeven") =>
        (vErr = Nil <=>
            vd.Action \in {"close_long", "close_short", "partial_close_long",
                           "partial_close_short", "hold", "wait"})

\* a wait accepted with no leverage, an oversized position, no stops, no
\* equity and no market data
C10_Witness ==
    /\ vpc = "done" /\ vErr = Nil
    /\ vd.Action = "wait"
    /\ vd.Leverage = 0 /\ vd.PositionSizeUSD = 1011
    /\ vd.StopLoss = 0 /\ vd.TakeProfit = 0 /\ vd.NewStopLoss = -1
    /\ vIn.accountEquity = 0 /\ vIn.mk.err

\* ------------------------------------------------------------------
\* Properties of GetFullDecision (SpecGFD, FairSpecGFD)
\* ------------------------------------------------------------------
Returned == pc \in {"accepted", "failed"}
fd == ret.decision[1]
lastSent == sent[Len(sent)]
lastHist == hist[Len(hist)]
IsJson(t) ==
    t.k \in {"json_array", "json_object", "json_array_curly",
             "json_object_curly", "json_null"}

\* steps GetFullDecision has left at most before it returns
Rank ==
    IF Returned THEN 0
    ELSE IF pc = "fetch" THEN 3 * maxRetries + 3
    ELSE IF pc = "build" THEN 3 * maxRetries + 2
    ELSE IF pc = "loop" THEN 3 * (maxRetries - attempt) + 1
    ELSE IF pc = "call" THEN 3 * (maxRetries - attempt)
    ELSE 3 * (maxRetries - attempt) - 1

\* C1: one invocation sends at most two requests to the reasoning client,
\* never a third; every step brings it nearer to its return, and it returns
\* exactly one of two outcomes: a decision set with no error, or an error
\* with no decision set.
C1_TwoRequestsOneOutcome ==
    /\ [](Len(sent) <= 2)
    /\ [](Rank >= 0 /\ (Rank = 0 <=> Returned))
    /\ [][Rank' < Rank]_vars
    /\ [](pc = "accepted" => (ret.decision # << >> /\ ret.err = Nil))
    /\ [](pc = "failed" => (ret.decision = << >> /\ ret.err # Nil))

\* both attempts were made and both failed: the call returned after the
\* second request
C1_Witness ==
    /\ pc = "failed"
    /\ Len(sent) = 2 /\ Len(hist) = 2
    /\ ~hist[1].transport /\ ~hist[2].transport

\* C2: the first request carries the original user prompt; a second request
\* is sent if and only if the first response failed parsing or validation,
\* only once that failure is known, with the same system prompt and a
\* correction prompt embedding the first error, the original user prompt and
\* the first raw response verbatim; a response with no JSON code block fails.
C2_CorrectionRequest ==
    /\ Len(sent) <= 2
    /\ Len(sent) >= 1 =>
          /\ sent[1].user = userPrompt
          /\ sent[1].system = systemPrompt
    /\ Len(sent) = 2 =>
          /\ Len(hist) >= 1
          /\ ~hist[1].transport
          /\ hist[1].err # Nil
          /\ sent[2].system = sent[1].system
          /\ sent[2].user # sent[1].user
          /\ IsInfix(hist[1].err, sent[2].user)
          /\ IsInfix(userPrompt, sent[2].user)
          /\ IsInfix(hist[1].resp, sent[2].user)
    /\ (Returned /\ Len(hist) >= 1 /\ ~hist[1].transport /\ hist[1].err # Nil) =>
          Len(sent) = 2
    /\ (Len(hist) >= 1 /\ ~hist[1].transport
         /\ \A i \in 1..Len(hist[1].resp) : hist[1].resp[i] # jsonCodeBlockStart) =>
          hist[1].err # Nil

\* the correction request is out after a validation failure of a first
\* response that had reasoning text and a JSON block
C2_Witness ==
    /\ Len(sent) = 2
    /\ IsInfix(<<T("decision validation failed: ")>>, hist[1].err)
    /\ Len(hist[1].resp) >= 4

\* C3: an error returned by the reasoning client, on the first or on the
\* correction attempt, ends the call at once with that error: no request
\* follows it and no decision set is returned.
C3_TransportErrorFatal ==
    \A i \in 1..Len(hist) :
        hist[i].transport =>
            /\ i = Len(hist)
            /\ Len(sent) = i
            /\ pc = "failed"
            /\ ret.decision = << >>
            /\ IsInfix(hist[i].err, ret.err)

\* the client failed on the correction attempt
C3_Witness ==
    /\ Len(hist) = 2
    /\ hist[2].transport
    /\ pc = "failed"

\* C4: an accepted decision set and its reasoning trace are those of the
\* response to the last request made, which passed validation; every
\* decision in it has a valid action and every open_long/open_short in it
\* has strictly positive leverage, position size, stop-loss and take-profit.
C4_AcceptedFromLastResponse ==
    pc = "accepted" =>
        /\ Len(hist) = Len(sent)
        /\ lastHist.err = Nil
        /\ \E i \in 1..Len(lastHist.resp) :
              /\ IsJson(lastHist.resp[i])
              /\ fd.Decisions = lastHist.resp[i].ds
        /\ IsInfix(fd.CoTTrace, lastHist.resp)
        /\ \A j \in 1..Len(fd.Decisions) :
              LET d == fd.Decisions[j]
              IN  /\ d.Action \in {"open_long", "open_short", "close_long",
                                   "close_short", "partial_close_long",
                                   "partial_close_short", "hold", "wait",
                                   "move_sl_to_breakeven"}
                  /\ d.Action \in {"open_long", "open_short"} =>
                        /\ d.Leverage > 0 /\ d.PositionSizeUSD > 0
                        /\ d.StopLoss > 0 /\ d.TakeProfit > 0

\* accepted on the correction attempt, with two decisions of which one
\* opens a position, after a first response that spelled out other decisions
C4_Witness ==
    /\ pc = "accepted"
    /\ Len(sent) = 2
    /\ Len(fd.Decisions) = 2
    /\ \E j \in 1..2 : fd.Decisions[j].Action = "open_long"
    /\ \E i \in 1..Len(hist[1].resp) :
          /\ IsJson(hist[1].resp[i])
          /\ hist[1].resp[i].ds # fd.Decisions
          /\ hist[1].resp[i].ds # << >>

\* C5 as claimed: the accepted FullDecision is timestamped and holds the
\* system prompt and the user-side prompt of the request whose response was
\* accepted.
C5_ExactPromptsRetained ==
    pc = "accepted" =>
        /\ fd.Timestamp # 0
        /\ fd.SystemPrompt = lastSent.system
        /\ fd.UserPrompt = lastSent.user

\* C5 amended: the accepted FullDecision is timestamped and holds the system
\* prompt of the accepted request and the original user prompt, the user-side
\* prompt of the first request, also when the accepted response answered the
\* correction request.
C5_OriginalPromptsRetained ==
    pc = "accepted" =>
        /\ fd.Timestamp # 0
        /\ fd.SystemPrompt = lastSent.system
        /\ fd.SystemPrompt # << >>
        /\ fd.UserPrompt = sent[1].user
        /\ fd.UserPrompt # << >>

\* accepted on the correction attempt
C5_Witness ==
    /\ pc = "accepted"
    /\ Len(sent) = 2
    /\ sent[2].user # sent[1].user

\* C6: when both attempts fail parsing or validation, the returned failure
\* carries the error of the second attempt and the second raw response
\* (here: at least the response without its surrounding white space).
C6_FailureCarriesResponseAndError ==
    (pc = "failed" /\ Len(hist) = 2 /\ ~hist[1].transport /\ ~hist[2].transport) =>
        /\ IsInfix(hist[2].err, ret.err)
        /\ IsInfix(TrimSpace(hist[2].resp), ret.err)

\* ------------------------------------------------------------------
\* Properties of MatchPositions (SpecMatch)
\* ------------------------------------------------------------------
RECURSIVE SeqSum(_)
SeqSum(q) == IF q = << >> THEN 0 ELSE q[1] + SeqSum(Tail(q))

QtyOfLots(lots) == SeqSum([i \in 1..Len(lots) |-> lots[i].Quantity])
QtyOfClosed(cps) == SeqSum([i \in 1..Len(cps) |-> cps[i].TotalQuantity])

\* the fill being processed by the coming ProcessTrade step, the queue it
\* closes against and the queue its remainder joins, before and after
mFill == symbolTrades[tradeIdx]
mOpp == IF mFill.IsBuyer THEN openSells ELSE openBuys
mOppAfter == IF mFill.IsBuyer THEN openSells' ELSE openBuys'
mOwn == IF mFill.IsBuyer THEN openBuys ELSE openSells
mOwnAfter == IF mFill.IsBuyer THEN openBuys' ELSE openSells'
mNewClosed ==
    SubSeq(closedPositions', Len(closedPositions) + 1, Len(closedPositions'))
mNewPairs == SubSeq(pairs', Len(pairs) + 1, Len(pairs'))
mRest == mFill.Quantity - QtyOfClosed(mNewClosed)
mProcessStep == mpc = "trades" /\ tradeIdx' = tradeIdx + 1

mAscending ==
    \A i \in 1..Len(symbolTrades), j \in 1..Len(symbolTrades) :
       i < j => symbolTrades[i].Timestamp <= symbolTrades[j].Timestamp

mFifoStep ==
    LET n == Len(mNewClosed)
        q(k) == mNewClosed[k].TotalQuantity
        left(k) == mFill.Quantity - QtyOfClosed(SubSeq(mNewClosed, 1, k - 1))
        after == SubSeq(mOpp, n + 1, Len(mOpp))
    IN  /\ SubSeq(closedPositions', 1, Len(closedPositions)) = closedPositions
        /\ n <= Len(mOpp)
        /\ \A k \in 1..n :
              /\ mNewPairs[k] = [open |-> mOpp[k].TradeID,
                                 closing |-> mFill.TradeID]
              /\ mNewClosed[k].OpenTime = mOpp[k].Timestamp
              /\ q(k) = (IF left(k) < mOpp[k].Quantity
                         THEN left(k) ELSE mOpp[k].Quantity)
              /\ q(k) > 0
              /\ k < n => q(k) = mOpp[k].Quantity
        /\ n < Len(mOpp) => mRest = 0
        /\ mOppAfter = (IF n > 0 /\ q(n) < mOpp[n].Quantity
                        THEN <<[mOpp[n] EXCEPT !.Quantity = @ - q(n)]>> \o after
                        ELSE after)
        /\ mOwnAfter = (IF mRest > 0
                        THEN Append(mOwn, [mFill EXCEPT !.Quantity = mRest])
                        ELSE mOwn)
        /\ mRest > 0 => mOppAfter = << >>

\* C11: a symbol's fills are processed in ascending timestamp order; each
\* fill closes the opposing lots oldest first, one ClosedPosition per lot
\* touched, of quantity min(what is left of the fill, the lot's quantity);
\* an exhausted lot leaves the queue, a partly consumed lot stays at its
\* head, and only what is left of the fill after every opposing lot is
\* gone is appended to the tail of its own side's queue.
C11_FifoMatching ==
    /\ [](mpc = "trades" => mAscending)
    /\ [][mProcessStep => mFifoStep]_vars

\* a sell has exhausted the older of two long lots and consumed part of
\* the younger, which stays at the head of its queue
C11_Witness ==
    /\ mpc = "symbols" /\ calls = 1
    /\ Len(closedPositions) = 2
    /\ pairs[1].closing = pairs[2].closing
    /\ Len(openBuys) = 1
    /\ openBuys[1].TradeID = pairs[2].open
    /\ openBuys[1].Quantity < ledger[openBuys[1].TradeID].Quantity

\* the ledger of the worked example: buy 1.0 at 100 with fee 0.1, sell 0.4
\* at 110 with fee 0.05, sell 0.6 at 90 with fee 0.05
ExampleLedger ==
    << TradeRecord(1, "BTCUSDT", TRUE, 1000, 10, 10, 1),
       TradeRecord(2, "BTCUSDT", FALSE, 1100, 4, 5, 2),
       TradeRecord(3, "BTCUSDT", FALSE, 900, 6, 5, 3) >>

\* the fees and net profit of the k-th ClosedPosition, apportioned on the
\* ORIGINAL quantities of its two fills
mFeesOnOriginal(k) ==
    LET o == ledger[pairs[k].open]
        c == ledger[pairs[k].closing]
        q == closedPositions[k].TotalQuantity
    IN  RatAdd(Rat(o.Commission * q, o.Quantity),
               Rat(c.Commission * q, c.Quantity))
mNetOnOriginal(k) ==
    LET o == ledger[pairs[k].open]
        c == ledger[pairs[k].closing]
        q == closedPositions[k].TotalQuantity
        gross == IF o.IsBuyer THEN (c.Price - o.Price) * q
                              ELSE (o.Price - c.Price) * q
    IN  RatSub(<<gross, 1>>, mFeesOnOriginal(k))

\* what has been charged against the fill id so far: its share of the fees
\* of every ClosedPosition it opened or closed
RECURSIVE mChargedUpTo(_, _)
mChargedUpTo(id, k) ==
    IF k = 0 THEN <<0, 1>>
    ELSE LET o == ledger[pairs[k].open]
             c == ledger[pairs[k].closing]
             rest == mChargedUpTo(id, k - 1)
             closingShare == Rat(c.Commission * closedPositions[k].TotalQuantity,
                                 c.Quantity)
         IN  IF pairs[k].closing = id
             THEN RatAdd(rest, closingShare)
             ELSE IF pairs[k].open = id
                  THEN RatAdd(rest, RatSub(closedPositions[k].TotalFees,
                                           closingShare))
                  ELSE rest

\* C12: every ClosedPosition's fees are each fill's commission times the
\* matched quantity over that fill's original quantity, and its net profit
\* is the signed price difference times the matched quantity minus those
\* fees; the worked example gives two ClosedPositions with fees 0.09 and
\* 0.11 and net profit 3.91 and -6.11 and nothing left open; the fees
\* charged against a fill never exceed its commission.
C12_FeesOnOriginalQuantity ==
    /\ \A k \in 1..Len(closedPositions) :
          /\ closedPositions[k].TotalFees = mFeesOnOriginal(k)
          /\ closedPositions[k].NetProfit = mNetOnOriginal(k)
    /\ (mpc = "returned" /\ trades = ExampleLedger) =>
          /\ Len(closedPositions) = 2
          /\ closedPositions[1].TotalFees = <<9, 1>>
          /\ closedPositions[1].NetProfit = <<391, 1>>
          /\ closedPositions[2].TotalFees = <<11, 1>>
          /\ closedPositions[2].NetProfit = <<0 - 611, 1>>
          /\ openBuys = << >> /\ openSells = << >>
    /\ \A id \in 1..Len(ledger) :
          RatLeq(mChargedUpTo(id, Len(closedPositions)),
                 <<ledger[id].Commission, 1>>)

\* how often the net profit v occurs in a returned slice
mNetProfitCount(r, v) == Cardinality({ i \in 1..Len(r) : r[i].NetProfit = v })
mNetProfits(r) == { r[i].NetProfit : i \in 1..Len(r) }

\* C13: MatchPositions called on a rearrangement of the same fills returns
\* the same multiset of net profits, also when two fills of a symbol carry
\* the same timestamp.
C13_PermutationInvariant ==
    (mpc = "returned" /\ calls = 2) =>
        \A v \in mNetProfits(mRet) \cup mNetProfits(firstCall.ret) :
           mNetProfitCount(mRet, v) = mNetProfitCount(firstCall.ret, v)

\* the symbol whose trades are being processed, its trades already
\* processed, and its ClosedPositions so far
mSymbol == symbolTrades[1].Symbol
mProcessed == SubSeq(symbolTrades, 1, tradeIdx - 1)
mClosedOfSymbol == SelectSeq(closedPositions, LAMBDA c : c.Symbol = mSymbol)
mInSymbol == mpc \in {"trades", "symbols"} /\ symbolTrades # << >>
mSymbolDone == mpc = "symbols" /\ symbolTrades # << >>
mResidual == QtyOfLots(openBuys) + QtyOfLots(openSells)

\* C14 as stated: for every symbol, once all its fills are processed, the
\* matched quantities of its ClosedPositions plus the quantities of the
\* lots still open add up to the quantities of all its fills.
C14_MatchedPlusResidual ==
    mSymbolDone =>
        QtyOfClosed(mClosedOfSymbol) + mResidual = QtyOfLots(symbolTrades)

\* C14 amended: every match takes its quantity out of two fills, the lot
\* and the closing fill, so after each processed fill of a symbol TWICE
\* the matched quantities plus the open lots' quantities add up to the
\* quantities of the fills processed; once all are processed, to the
\* quantities of all the symbol's fills in the ledger.
C14_TwiceMatchedPlusResidual ==
    /\ mInSymbol =>
          2 * QtyOfClosed(mClosedOfSymbol) + mResidual = QtyOfLots(mProcessed)
    /\ mSymbolDone =>
          2 * QtyOfClosed(mClosedOfSymbol) + mResidual =
             QtyOfLots(SelectSeq(trades, LAMBDA t : t.Symbol = mSymbol))

\* a symbol is done with something matched and something left open
C14_Witness ==
    /\ mSymbolDone
    /\ QtyOfClosed(mClosedOfSymbol) > 0
    /\ mResidual > 0

\* the quantity of fill id matched while it was the closing fill, matched
\* while it was an open lot, and still open
mMatchedAs(id, side) ==
    SeqSum([k \in 1..Len(pairs) |->
               IF pairs[k][side] = id THEN closedPositions[k].TotalQuantity
                                      ELSE 0])
mStillOpen(id) ==
    QtyOfLots(SelectSeq(openBuys \o openSells, LAMBDA t : t.TradeID = id))

\* C15: in every step that processes a fill, the quantity taken out of the
\* opposing lots, the quantity taken out of the fill and the quantity of
\* the ClosedPositions emitted are the same; and every processed fill's
\* quantity is the sum of what it closed, what was later closed against it
\* as a lot, and what of it is still open.
C15_BothSidesBalance ==
    /\ [][mProcessStep =>
            /\ QtyOfLots(mOpp) - QtyOfLots(mOppAfter) = QtyOfClosed(mNewClosed)
            /\ mFill.Quantity - (QtyOfLots(mOwnAfter) - QtyOfLots(mOwn))
                  = QtyOfClosed(mNewClosed)]_vars
    /\ [](mInSymbol =>
            \A i \in 1..Len(mProcessed) :
               LET id == mProcessed[i].TradeID
               IN  mProcessed[i].Quantity =
                      mMatchedAs(id, "closing") + mMatchedAs(id, "open")
                      + mStillOpen(id))

\* one fill has closed a lot, has had part of its remainder closed against
\* it, and is still partly open
C15_Witness ==
    /\ mInSymbol
    /\ \E i \in 1..Len(mProcessed) :
          LET id == mProcessed[i].TradeID
          IN  /\ mMatchedAs(id, "closing") > 0
              /\ mMatchedAs(id, "open") > 0
              /\ mStillOpen(id) > 0

mSetOf(r) == { r[i] : i \in 1..Len(r) }

\* C16: during a call the caller's slice is not written, and a second call
\* on the same ledger returns the same set of ClosedPositions as the first.
C16_PureFunction ==
    /\ [][mpc # "returned" => trades' = trades]_vars
    /\ [](trades = ledger \/ calls = 2)
    /\ []((mpc = "returned" /\ calls = 2 /\ trades = firstCall.trades) =>
             mSetOf(mRet) = mSetOf(firstCall.ret))

\* the second call on an unchanged two-symbol ledger has returned, and
\* there was something to return
C16_Witness ==
    /\ mpc = "returned" /\ calls = 2
    /\ trades = firstCall.trades
    /\ Cardinality(symbolsOf(trades)) = 2
    /\ Len(mRet) > 0

\* ------------------------------------------------------------------
\* Properties of fetchMarketDataForContext (SpecFetch)
\* ------------------------------------------------------------------
fDone == fpc = "done"
fSymbolSet == { fIn.ConfiguredSymbolsToAI[i] :
                  i \in 1..Len(fIn.ConfiguredSymbolsToAI) }
fHeld(symbol) == \E i \in 1..Len(fIn.Positions) : fIn.Positions[i] = symbol
fFetched(symbol) == symbol \in fSymbolSet /\ fIn.get[symbol].err = Nil
fData(symbol) == fIn.get[symbol].data[1]
fInMap(symbol) == symbol \in DOMAIN fOut.MarketDataMap
\* the open interest is known and its notional is below 15 million USD
fNotionalLow(symbol) ==
    /\ fData(symbol).OpenInterest # << >>
    /\ fData(symbol).OpenInterest[1].Latest * fData(symbol).CurrentPrice
          < 15000000

\* C17 as stated: a fetched symbol that is not held and whose open-interest
\* notional is below 15 million USD is left out of MarketDataMap; a
\* fetched symbol that is held is kept, with the data fetched.
C17_LowNotionalLeftOut ==
    fDone =>
       \A symbol \in FetchSymbols :
          /\ (fFetched(symbol) /\ ~fHeld(symbol) /\ fNotionalLow(symbol))
                => ~fInMap(symbol)
          /\ (fFetched(symbol) /\ fHeld(symbol))
                => (fInMap(symbol)
                    /\ fOut.MarketDataMap[symbol] = fData(symbol))

\* C17 amended: the filter applies only when the current price is
\* positive; a fetched symbol that is not held, has a positive price and an
\* open-interest notional below 15 million USD is left out; one with the
\* same data that is held is kept, and so is every fetched symbol whose
\* price is not positive or whose open interest is unknown.
C17_LowNotionalPositivePriceLeftOut ==
    fDone =>
       \A symbol \in FetchSymbols :
          /\ (fFetched(symbol) /\ ~fHeld(symbol) /\ fNotionalLow(symbol)
              /\ fData(symbol).CurrentPrice > 0)
                => ~fInMap(symbol)
          /\ (fFetched(symbol) /\ fHeld(symbol))
                => (fInMap(symbol)
                    /\ fOut.MarketDataMap[symbol] = fData(symbol))
          /\ (fFetched(symbol)
              /\ (fData(symbol).CurrentPrice <= 0
                  \/ fData(symbol).OpenInterest = << >>))
                => fInMap(symbol)

\* the same low-notional data fetched for two symbols: the one that is
\* held is kept, the one that is not is left out
C17_Witness ==
    /\ fDone
    /\ fFetched("BTCUSDT") /\ fFetched("SOLUSDT")
    /\ fData("BTCUSDT").OpenInterest = fData("SOLUSDT").OpenInterest
    /\ fData("BTCUSDT").CurrentPrice = fData("SOLUSDT").CurrentPrice
    /\ fNotionalLow("BTCUSDT") /\ fData("BTCUSDT").CurrentPrice > 0
    /\ ~fHeld("BTCUSDT") /\ fHeld("SOLUSDT")
    /\ ~fInMap("BTCUSDT") /\ fInMap("SOLUSDT")

\* ------------------------------------------------------------------
\* Properties of the fetch step of GetFullDecision (SpecGFD)
\* ------------------------------------------------------------------
gUniverse == { ctx.ConfiguredSymbolsToAI[i] :
                 i \in 1..Len(ctx.ConfiguredSymbolsToAI) }
gFetchDone == pc \notin {"idle", "fetch"}
\* the symbol yields a snapshot: market.Get returned data and the
\* liquidity filter let it through
gYields(symbol) ==
    /\ marketGet[symbol].err = Nil
    /\ LET data == marketGet[symbol].data[1]
       IN  \/ \E i \in 1..Len(ctx.Positions) : ctx.Positions[i] = symbol
           \/ data.OpenInterest = << >>
           \/ data.CurrentPrice <= 0
           \/ data.OpenInterest[1].Latest * data.CurrentPrice >= 15000000
gFetchFailed ==
    /\ pc = "failed"
    /\ ret.decision = << >>
    /\ Len(ret.err) >= 1 /\ ret.err[1] = T("fetching market data failed: ")
    /\ sent = << >>

\* C19 as stated: when no symbol of the configured universe yields a
\* snapshot the fetch returns an error and GetFullDecision fails with no
\* request sent; when one does, the failure of the others does not fail
\* the cycle and every symbol that yields a snapshot is in MarketDataMap.
C19_NoSnapshotFailsCycle ==
    gFetchDone =>
       /\ (\A symbol \in gUniverse : ~gYields(symbol)) => gFetchFailed
       /\ (\E symbol \in gUniverse : gYields(symbol)) =>
             /\ ~gFetchFailed
             /\ \A symbol \in gUniverse :
                   gYields(symbol) =>
                      /\ symbol \in DOMAIN ctx.MarketDataMap
                      /\ ctx.MarketDataMap[symbol] = marketGet[symbol].data[1]

\* C19 amended: the fetch fails the cycle, with no request sent, when the
\* configured universe is NOT EMPTY and none of its symbols yields a
\* snapshot; with an empty universe, or when one symbol yields a snapshot,
\* the fetch returns no error and every symbol that yields a snapshot is
\* in MarketDataMap.
C19_NoSnapshotOfNonEmptyUniverseFailsCycle ==
    gFetchDone =>
       /\ (gUniverse # {} /\ \A symbol \in gUniverse : ~gYields(symbol))
             => gFetchFailed
       /\ (gUniverse = {} \/ \E symbol \in gUniverse : gYields(symbol)) =>
             /\ ~gFetchFailed
             /\ \A symbol \in gUniverse :
                   gYields(symbol) =>
                      /\ symbol \in DOMAIN ctx.MarketDataMap
                      /\ ctx.MarketDataMap[symbol] = marketGet[symbol].data[1]

\* the cycle has failed at the fetch: two symbols configured, one fetched
\* but filtered for its liquidity, the other not fetched
C19_Witness ==
    /\ gFetchFailed
    /\ Cardinality(gUniverse) = 2
    /\ \E symbol \in gUniverse : marketGet[symbol].err = Nil
    /\ \E symbol \in gUniverse : marketGet[symbol].err # Nil

\* ------------------------------------------------------------------
\* Properties of market.Get (SpecGet)
\* ------------------------------------------------------------------
gFailedFetches == { tf \in TimeframeSet : errs[tf] # Nil }
gReturned == gpc.at \in {"returned", "placed"}
gAllFetched == \A tf \in TimeframeSet : fetchPc[tf] = "done"
\* positions of the calling goroutine after wg.Wait of line 127
gPastWait ==
    gpc.at \in {"check", "oi", "calcgo", "calcwait", "return", "returned",
                "placed"}

\* C18 as stated: when exactly one of the five fetches fails, Get returns
\* no error but a snapshot that lacks only the failed interval's series,
\* and the caller places it in its map.
C18_OneFailureDegrades ==
    (gReturned /\ Cardinality(gFailedFetches) = 1) =>
        /\ gRet.err = Nil
        /\ gRet.data # << >>
        /\ \A tf \in TimeframeSet :
              tf \notin gFailedFetches => gRet.data[1].Contexts[tf] # << >>
        /\ gpc.at = "placed" => gIn.symbol \in DOMAIN gMap

\* C18 amended: when a fetch fails, Get returns no snapshot and the error
\* of the first failed interval in the order 3m, 15m, 1h, 4h, 1d; the
\* caller leaves the symbol out of its map and goes on with the loop.
C18_AnyFailureDropsSymbol ==
    (gReturned /\ gFailedFetches # {}) =>
        /\ gRet.data = << >>
        /\ gRet.err # Nil
        /\ \E i \in 1..Len(Timeframes) :
              /\ Timeframes[i] \in gFailedFetches
              /\ \A j \in 1..(i - 1) : Timeframes[j] \notin gFailedFetches
              /\ gRet.err[2] = T(Timeframes[i])
        /\ gpc.at = "placed" => gIn.symbol \notin DOMAIN gMap

\* only the daily fetch failed, and the caller has gone past the symbol
C18_Witness ==
    /\ gpc.at = "placed"
    /\ gFailedFetches = {"1d"}
    /\ gIn.symbol \notin DOMAIN gMap

\* a step writes the results of at most the one interval whose goroutine
\* takes the step
gOwnResultsOnly ==
    \A tf \in TimeframeSet :
       (klines'[tf] # klines[tf] \/ errs'[tf] # errs[tf]) =>
          /\ fetchPc[tf] = "fetching" /\ fetchPc'[tf] = "assigned"
          /\ \A other \in TimeframeSet \ {tf} :
                /\ klines'[other] = klines[other]
                /\ errs'[other] = errs[other]
                /\ fetchPc'[other] = fetchPc[other]

\* C20: the five fetches are started without waiting for one another (a
\* go statement is never blocked, and a started fetch can always proceed,
\* whatever the others do); the results and errors are read, and the
\* computations are started, only after all five fetches have finished;
\* a fetch goroutine writes only its own results.
C20_FanOutAndJoin ==
    /\ [](gpc.at = "go" => ENABLED GetGo)
    /\ [](\A tf \in TimeframeSet :
             fetchPc[tf] = "fetching" => ENABLED FetchAssign(tf))
    /\ [](gPastWait => gAllFetched)
    /\ []((\E tf \in TimeframeSet : calcPc[tf] # "none") => gAllFetched)
    /\ [][gOwnResultsOnly]_vars

\* all five fetches are in flight at once while the caller waits
C20_Witness ==
    /\ gpc.at = "wait"
    /\ \A tf \in TimeframeSet : fetchPc[tf] = "fetching"

\* ------------------------------------------------------------------
\* More properties of MatchPositions (SpecMatch)
\* ------------------------------------------------------------------
mLotsAscending(lots) ==
    \A i \in 1..Len(lots), j \in 1..Len(lots) :
       i < j => lots[i].Timestamp <= lots[j].Timestamp
mLotsPositive(lots) == \A i \in 1..Len(lots) : lots[i].Quantity > 0

\* C25: while a symbol's fills are processed, after each fill, the open
\* long lots and the open short lots are never both present, every lot
\* has a strictly positive quantity, and each queue is in ascending order
\* of timestamp.
C25_QueueInvariants ==
    mInSymbol =>
        /\ ~(openBuys # << >> /\ openSells # << >>)
        /\ mLotsPositive(openBuys) /\ mLotsPositive(openSells)
        /\ mLotsAscending(openBuys) /\ mLotsAscending(openSells)

\* two short lots of different timestamps are queued and a fill of
\* quantity 0 has been processed
C25_Witness ==
    /\ mInSymbol
    /\ Len(openSells) = 2
    /\ openSells[1].Timestamp < openSells[2].Timestamp
    /\ \E i \in 1..Len(mProcessed) : mProcessed[i].Quantity = 0

\* ------------------------------------------------------------------
\* More properties of fetchMarketDataForContext (SpecFetch)
\* ------------------------------------------------------------------
\* C30: market data is requested for exactly the configured symbols, so
\* the keys of MarketDataMap are configured symbols, a position whose
\* symbol is not configured gets no snapshot, and an empty configured list
\* gives an empty map and no error.
C30_OnlyConfiguredSymbols ==
    fDone =>
        /\ fOut.Requested = fSymbolSet
        /\ DOMAIN fOut.MarketDataMap \subseteq fSymbolSet
        /\ \A symbol \in FetchSymbols :
              (fHeld(symbol) /\ symbol \notin fSymbolSet) => ~fInMap(symbol)
        /\ fIn.ConfiguredSymbolsToAI = << >> =>
              (DOMAIN fOut.MarketDataMap = {} /\ fOut.err = Nil)

\* a held symbol whose data could be fetched is not configured and has no
\* snapshot, while the configured symbol has one
C30_Witness ==
    /\ fDone
    /\ fSymbolSet = {"BTCUSDT"}
    /\ fHeld("SOLUSDT") /\ fIn.get["SOLUSDT"].err = Nil
    /\ ~fInMap("SOLUSDT") /\ fInMap("BTCUSDT")

\* ------------------------------------------------------------------
\* More properties of GetFullDecision (SpecGFD)
\* ------------------------------------------------------------------
\* attempt k validated decision i with a market.Get call that failed
gGetFailedAt(k, i) ==
    /\ k \in 1..Len(hist)
    /\ i \in 1..Len(hist[k].gets)
    /\ hist[k].gets[i] = "failed"
gGetFailed(k) == \E i \in 1..MaxDecisions : gGetFailedAt(k, i)
\* the response of attempt k breaks no rule: with a snapshot at the sample
\* price every decision of it passes validation
gRuleClean(k) ==
    LET ex == extractDecisions(hist[k].resp)
    IN  /\ ex.err = Nil
        /\ \A i \in 1..Len(ex.decisions) :
              validateDecision(ex.decisions[i], ctx.TotalEquity, ctx.BTCETHLeverage,
                               ctx.AltcoinLeverage, Mk(FALSE, 20)) = Nil
gFetchFailureError(i) ==
    <<T("decision validation failed: "), T("decision #"), T(ToString(i)),
      T(" failed validation: "), T("market data fetch failed")>>

\* C29: a market.Get failure while an open_long/open_short decision is
\* validated is reported as a validation failure of that decision; on the
\* first attempt the call goes on to the correction request, which embeds
\* that error, and on the second attempt the call fails with it, whether or
\* not the response broke a rule.
C29_FetchFailureIsValidationFailure ==
    \A k \in 1..Len(hist) : \A i \in 1..MaxDecisions :
        gGetFailedAt(k, i) =>
            /\ extractDecisions(hist[k].resp).decisions[i].Action
                  \in {"open_long", "open_short"}
            /\ Len(hist[k].err) >= 5
            /\ SubSeq(hist[k].err, 1, 5) = gFetchFailureError(i)
            /\ k = Len(hist) => pc # "accepted"
            /\ (k = Len(hist) /\ pc = "loop") => (attempt = k /\ err = hist[k].err)
            /\ (k = 1 /\ pc # "loop") =>
                  /\ Len(sent) = 2
                  /\ IsInfix(hist[1].err, sent[2].user)
                  /\ IsInfix(hist[1].resp, sent[2].user)
            /\ (k = 2 /\ Returned) =>
                  /\ pc = "failed"
                  /\ ret.decision = << >>
                  /\ IsInfix(hist[2].err, ret.err)
            /\ k = 2 => Len(sent) = 2

\* both attempts got a response that breaks no rule, the market data fetch
\* failed during both validations, and the call has failed
C29_Witness ==
    /\ pc = "failed"
    /\ Len(hist) = 2
    /\ gGetFailed(1) /\ gGetFailed(2)
    /\ gRuleClean(1) /\ gRuleClean(2)


\* ------------------------------------------------------------------
\* Properties of the indicators and snapshot builders (SpecIndicators)
\* ------------------------------------------------------------------
iDone == ipc = "done"
iLen == Len(iIn.klines)
iIndicators ==
    {"calculateEMA", "calculateRSI", "calculateMACD", "calculateATR", "calculateADX"}
\* the number of candles below which the indicator has no value
iLookback(fn, period) ==
    IF fn = "calculateEMA" THEN period
    ELSE IF fn = "calculateMACD" THEN 26
    ELSE period + 1
iValue(fn, ks, period) ==
    IF fn = "calculateEMA" THEN calculateEMA(ks, period)
    ELSE IF fn = "calculateRSI" THEN calculateRSI(ks, period)
    ELSE IF fn = "calculateMACD" THEN calculateMACD(ks)
    ELSE IF fn = "calculateATR" THEN calculateATR(ks, period)
    ELSE calculateADX(ks, period).value
iShortCall == iDone /\ iOut.fn \in iIndicators /\ iLen < iLookback(iOut.fn, iIn.period)

\* C21: an indicator called on a series shorter than its lookback returns
\* a result that is not the number 0 and that no series with enough
\* candles yields, and a snapshot builder called on a non-empty series
\* that is too short for one of its indicators does not put 0 in that
\* indicator's field.
C21_ExplicitInsufficientData ==
    /\ iShortCall =>
          /\ iOut.value # Zero
          /\ \A ks \in KlineInputs :
                (Len(ks) >= iLookback(iOut.fn, iIn.period)
                 /\ ~calculateADX(ks, iIn.period).panic)
                    => iValue(iOut.fn, ks, iIn.period) # iOut.value
    /\ (iDone /\ iOut.fn = "calculateIntradaySeries" /\ iLen > 0) =>
          /\ iLen < 20 => iOut.value.CurrentEMA20 # Zero
          /\ iLen < 26 => iOut.value.CurrentMACD # Zero
          /\ iLen < 8 => iOut.value.CurrentRSI7 # Zero
          /\ iLen < 15 => iOut.value.ATR14 # Zero
    /\ (iDone /\ iOut.fn = "calculateOneHourContext" /\ iLen > 0) =>
          /\ iLen < 50 => iOut.value.EMA50 # Zero
          /\ iLen < 15 => iOut.value.ATR14 # Zero
    /\ (iDone /\ iOut.fn = "calculateDailyContext" /\ iLen > 0) =>
          (iLen < 50 => iOut.value.EMA50 # Zero)

\* C27: calculateADX, called directly or by calculateFourHourContext with
\* period 14, returns without reading outside the series, and returns 0
\* for a series of at most period candles.
C27_ADXStaysInRange ==
    /\ (iDone /\ iOut.fn = "calculateADX") =>
          /\ ~iOut.panic
          /\ iLen <= iIn.period => iOut.value = Zero
    /\ (iDone /\ iOut.fn = "calculateFourHourContext") => ~iOut.panic


\* ------------------------------------------------------------------
\* Properties of Analyze (SpecAnalyze)
\* ------------------------------------------------------------------
aDone == apc = "done"
aReturns == returnsFrom(aIn.records, 1)
aSharpe == aOut.analysis[1].SharpeRatio
\* the Sharpe ratio is the number 999
aSharpeIs999 ==
    \/ aSharpe.kind = "sentinel"
    \/ /\ aSharpe.kind = "ratio"
       /\ aSharpe.sign = 1
       /\ aSharpe.ratioSquared = Rat(998001 * aSharpe.periods, 175200)

\* C22: when at least one return can be computed, SharpeRatio is 999 if
\* the returns have no spread and a positive mean, and is never 999 when
\* their mean is zero or negative.
C22_SentinelOnlyForPositiveReturn ==
    (aDone /\ aOut.err = Nil /\ aReturns # << >>) =>
        /\ (varianceOf(aReturns) = Zero /\ RatLess(Zero, avgReturnOf(aReturns)))
              => aSharpeIs999
        /\ ~RatLess(Zero, avgReturnOf(aReturns)) => ~aSharpeIs999


\* ------------------------------------------------------------------
\* Properties of CallWithMessages (SpecCall)
\* ------------------------------------------------------------------
cReturned == cpc = "returned"
cNoKey == cfg.APIKey = << >> /\ cfg.GeminiAPIKey = << >>
cLast == providerCalls[Len(providerCalls)]

\* C24: the provider is called at most three times; every call but the
\* last failed with a retryable error; the first response is returned as
\* it is, a non-retryable error is returned at once as it is, and after
\* three retryable failures the returned error wraps the last one; without
\* any API key the call fails and the provider is not called.
C24_AtMostThreeCalls ==
    /\ Len(providerCalls) <= 3
    /\ \A i \in 1..(Len(providerCalls) - 1) :
          providerCalls[i].err # Nil /\ isRetryableError(providerCalls[i].err)
    /\ (~cReturned /\ providerCalls # << >>) =>
          (cLast.err # Nil /\ isRetryableError(cLast.err))
    /\ cNoKey => providerCalls = << >>
    /\ (cReturned /\ cNoKey) => (cRet.err # Nil /\ cRet.result = << >>)
    /\ (cReturned /\ ~cNoKey) =>
          /\ providerCalls # << >>
          /\ cLast.err = Nil => cRet = [result |-> cLast.result, err |-> Nil]
          /\ (cLast.err # Nil /\ ~isRetryableError(cLast.err)) =>
                cRet = [result |-> << >>, err |-> cLast.err]
          /\ (cLast.err # Nil /\ isRetryableError(cLast.err)) =>
                /\ Len(providerCalls) = 3
                /\ cRet.result = << >>
                /\ cRet.err # cLast.err
                /\ IsInfix(cLast.err, cRet.err)

\* three calls failed with retryable errors, not all the same, and the
\* call returned the last one wrapped
C24_Witness ==
    /\ cReturned
    /\ Len(providerCalls) = 3
    /\ cLast.err # Nil /\ isRetryableError(cLast.err)
    /\ providerCalls[1].err # cLast.err
    /\ IsInfix(cLast.err, cRet.err)
    /\ slept = <<2, 4>>


\* ------------------------------------------------------------------
\* Properties of TraderManager (SpecManager)
\* ------------------------------------------------------------------
\* caller c is inside a lifecycle transition of trader t: its StartTrader
\* has started the goroutine that runs at.Run and has not returned, or its
\* StopTrader is inside at.Stop
tmInTransition(c, t) ==
    /\ tmCall[c].id = t
    /\ \/ tmCall[c].op = "StartTrader" /\ tmPc[c] = "select"
       \/ tmCall[c].op = "StopTrader" /\ tmPc[c] = "stopping"

\* C23: at no time are two lifecycle transitions of one trader in
\* progress: two StartTrader calls, or a StartTrader and a StopTrader call,
\* of the same trader never overlap.
C23_LifecycleSerialised ==
    \A t \in TraderIDs :
        Cardinality({ c \in TmCallers : tmInTransition(c, t) }) <= 1

tmSetDone(c) == tmCall[c].op = "SetDecisionMaker" /\ tmPc[c] = "done"

\* C28: SetDecisionMaker with an ID that is not registered returns an
\* error and leaves every trader's flag as it found it; with a registered
\* ID it returns no error and leaves exactly that trader flagged.
C28_UnknownIDKeepsFlags ==
    \A c \in TmCallers :
        tmSetDone(c) =>
            IF tmCall[c].id \in TraderIDs
            THEN /\ tmRet[c] = Nil
                 /\ flagsAt[c].after = [t \in TraderIDs |-> t = tmCall[c].id]
            ELSE /\ tmRet[c] # Nil
                 /\ flagsAt[c].after = flagsAt[c].before


\* ------------------------------------------------------------------
\* Properties of PromptManager (SpecPrompt)
\* ------------------------------------------------------------------
\* goroutine g waits for a lock it cannot get in this state
pmWaitsForRLock(g) ==
    /\ \/ pmPc[g] = "start" /\ pmCall[g].op = "GetTemplate"
       \/ pmPc[g] = "names"
    /\ ~pmCanRLock(pmMu)
pmWaitsForLock(g) ==
    /\ pmPc[g] \in {"reloadLocking", "loadLocking"}
    /\ ~pmCanLock(pmMu)
pmStuck ==
    /\ \E g \in PmCallers : pmPc[g] # "done"
    /\ \A g \in PmCallers :
          pmPc[g] # "done" => pmWaitsForRLock(g) \/ pmWaitsForLock(g)

\* C26: GetTemplate never waits for a read lock while it already holds
\* one and a writer waits for the lock, and the calls never reach a state
\* in which every unfinished call waits for a lock that cannot be given:
\* every call can still return.
C26_GetTemplateNeverWaitsOnItself ==
    /\ \A g \in PmCallers :
          ~(pmWaitsForRLock(g) /\ pmMu.readers[g] > 0 /\ pmMu.pending # {})
    /\ ~pmStuck

============================================================================
